---- MODULE Spec2Model ----
(***************************************************************************)
(* Model of the Dissect worker: the console-script invocation harness      *)
(* (src/src/tasks.py) and the target-query bundle orchestrator             *)
(* (src/src/target_query_bundle.py).                                       *)
(*                                                                         *)
(* Python strings whose characters matter (scope items, labels,            *)
(* diagnostics) are sequences of one-character strings; opaque tokens      *)
(* (preset names, plugin names, argument tokens) are TLA+ strings.         *)
(***************************************************************************)
EXTENDS Integers, Sequences, FiniteSets, TLC

(***************************************************************************)
(* Bounds of the model                                                     *)
(***************************************************************************)
MaxItems == 2
MaxCasePos == 2

\* Python None, as a sequence that is no string and no argument list
None == <<"None">>

\* an absent raw_scopes argument
NoScopes == [kind |-> "none", value |-> <<>>]

(***************************************************************************)
(* Python str helpers: lower(), upper(), strip(), split(sep)               *)
(***************************************************************************)
UpperChars ==
    <<"A","B","C","D","E","F","G","H","I","J","K","L","M",
      "N","O","P","Q","R","S","T","U","V","W","X","Y","Z">>

LowerChars ==
    <<"a","b","c","d","e","f","g","h","i","j","k","l","m",
      "n","o","p","q","r","s","t","u","v","w","x","y","z">>

Whitespace == {" ", "\n", "\t"}

LowerChar(c) ==
    IF \E i \in 1..26 : UpperChars[i] = c
    THEN LowerChars[CHOOSE i \in 1..26 : UpperChars[i] = c]
    ELSE c

UpperChar(c) ==
    IF \E i \in 1..26 : LowerChars[i] = c
    THEN UpperChars[CHOOSE i \in 1..26 : LowerChars[i] = c]
    ELSE c

Lower(s) == [i \in 1..Len(s) |-> LowerChar(s[i])]

Upper(s) == [i \in 1..Len(s) |-> UpperChar(s[i])]

RECURSIVE LStrip(_)
LStrip(s) ==
    IF s # <<>> /\ Head(s) \in Whitespace THEN LStrip(Tail(s)) ELSE s

RECURSIVE RStrip(_)
RStrip(s) ==
    IF s # <<>> /\ s[Len(s)] \in Whitespace
    THEN RStrip(SubSeq(s, 1, Len(s) - 1))
    ELSE s

Strip(s) == RStrip(LStrip(s))

RECURSIVE SplitFrom(_, _, _)
SplitFrom(s, seps, cur) ==
    IF s = <<>> THEN <<cur>>
    ELSE IF Head(s) \in seps
         THEN <<cur>> \o SplitFrom(Tail(s), seps, <<>>)
         ELSE SplitFrom(Tail(s), seps, Append(cur, Head(s)))

Split(s, sep) == SplitFrom(s, {sep}, <<>>)

Contains(s, c) == \E i \in 1..Len(s) : s[i] = c

SeqRange(s) == {s[i] : i \in 1..Len(s)}

RECURSIVE SelectSeqIdx(_, _)
SelectSeqIdx(n, keep) ==
    IF n = 0 THEN <<>>
    ELSE IF n \in keep
         THEN Append(SelectSeqIdx(n - 1, keep), n)
         ELSE SelectSeqIdx(n - 1, keep)

Get(d, key, default) == IF key \in DOMAIN d THEN d[key] ELSE default

\* F(v), with the value v computed once, as Python computes an argument
\* before the call
With(v, F(_)) == CHOOSE r \in {F(x) : x \in {v}} : TRUE

(***************************************************************************)
(* Categories, display labels and the preset catalog                       *)
(***************************************************************************)
CATEGORY_EVERYTHING ==
    <<"e","v","e","r","y","t","h","i","n","g">>
CATEGORY_ALL_EVENT_LOGS ==
    <<"a","l","l","_","e","v","e","n","t","_","l","o","g","s">>
CATEGORY_MFT_TIMELINE ==
    <<"m","f","t","_","t","i","m","e","l","i","n","e">>
CATEGORY_APPLICATION_EXECUTION ==
    <<"a","p","p","l","i","c","a","t","i","o","n","_","e","x","e","c","u","t","i","o","n">>
CATEGORY_FILE_FOLDER_OPENING ==
    <<"f","i","l","e","_","f","o","l","d","e","r","_","o","p","e","n","i","n","g">>
CATEGORY_DELETED_ITEMS ==
    <<"d","e","l","e","t","e","d","_","i","t","e","m","s","_","f","i","l","e","_","e","x","i","s","t","e","n","c","e">>
CATEGORY_BROWSER_ACTIVITY ==
    <<"b","r","o","w","s","e","r","_","a","c","t","i","v","i","t","y">>
CATEGORY_EXTERNAL_DEVICE ==
    <<"e","x","t","e","r","n","a","l","_","d","e","v","i","c","e","_","u","s","a","g","e">>
CATEGORY_USER_INFORMATION ==
    <<"u","s","e","r","_","i","n","f","o","r","m","a","t","i","o","n">>

SCOPE_ORDER ==
    << CATEGORY_EVERYTHING,
       CATEGORY_ALL_EVENT_LOGS,
       CATEGORY_MFT_TIMELINE,
       CATEGORY_APPLICATION_EXECUTION,
       CATEGORY_FILE_FOLDER_OPENING,
       CATEGORY_DELETED_ITEMS,
       CATEGORY_BROWSER_ACTIVITY,
       CATEGORY_EXTERNAL_DEVICE,
       CATEGORY_USER_INFORMATION >>

Label_EVERYTHING ==
    <<"E","v","e","r","y","t","h","i","n","g">>
Label_ALL_EVENT_LOGS ==
    <<"A","l","l"," ","e","v","e","n","t"," ","l","o","g","s">>
Label_MFT_TIMELINE ==
    <<"M","F","T"," ","t","i","m","e","l","i","n","e">>
Label_APPLICATION_EXECUTION ==
    <<"A","p","p","l","i","c","a","t","i","o","n"," ","e","x","e","c","u","t","i","o","n">>
Label_FILE_FOLDER_OPENING ==
    <<"F","i","l","e"," ","&"," ","f","o","l","d","e","r"," ","o","p","e","n","i","n","g">>
Label_DELETED_ITEMS ==
    <<"D","e","l","e","t","e","d"," ","i","t","e","m","s"," ","&"," ","f","i","l","e"," ","e","x","i","s","t","e","n","c","e">>
Label_BROWSER_ACTIVITY ==
    <<"B","r","o","w","s","e","r"," ","a","c","t","i","v","i","t","y">>
Label_EXTERNAL_DEVICE ==
    <<"E","x","t","e","r","n","a","l"," ","d","e","v","i","c","e"," ","&"," ","U","S","B"," ","u","s","a","g","e">>
Label_USER_INFORMATION ==
    <<"U","s","e","r"," ","i","n","f","o","r","m","a","t","i","o","n">>

SCOPE_VALUE_TO_LABEL(value) ==
    CASE value = CATEGORY_EVERYTHING -> Label_EVERYTHING
      [] value = CATEGORY_ALL_EVENT_LOGS -> Label_ALL_EVENT_LOGS
      [] value = CATEGORY_MFT_TIMELINE -> Label_MFT_TIMELINE
      [] value = CATEGORY_APPLICATION_EXECUTION -> Label_APPLICATION_EXECUTION
      [] value = CATEGORY_FILE_FOLDER_OPENING -> Label_FILE_FOLDER_OPENING
      [] value = CATEGORY_DELETED_ITEMS -> Label_DELETED_ITEMS
      [] value = CATEGORY_BROWSER_ACTIVITY -> Label_BROWSER_ACTIVITY
      [] value = CATEGORY_EXTERNAL_DEVICE -> Label_EXTERNAL_DEVICE
      [] value = CATEGORY_USER_INFORMATION -> Label_USER_INFORMATION

ScopeLiterals_EVERYTHING ==
    { CATEGORY_EVERYTHING,
      <<"a","l","l">>,
      <<"e","v","e","r","y","t","h","i","n","g">> }
ScopeLiterals_ALL_EVENT_LOGS ==
    { CATEGORY_ALL_EVENT_LOGS,
      <<"a","l","l","-","e","v","e","n","t","-","l","o","g","s">>,
      <<"a","l","l","_","e","v","e","n","t","_","l","o","g","s">>,
      <<"e","v","t","x">> }
ScopeLiterals_MFT_TIMELINE ==
    { CATEGORY_MFT_TIMELINE,
      <<"m","f","t">>,
      <<"m","f","t","-","t","i","m","e","l","i","n","e">>,
      <<"m","f","t","_","t","i","m","e","l","i","n","e">> }
ScopeLiterals_APPLICATION_EXECUTION ==
    { CATEGORY_APPLICATION_EXECUTION,
      <<"a","p","p","l","i","c","a","t","i","o","n">>,
      <<"a","p","p","l","i","c","a","t","i","o","n","-","e","x","e","c","u","t","i","o","n">> }
ScopeLiterals_FILE_FOLDER_OPENING ==
    { CATEGORY_FILE_FOLDER_OPENING,
      <<"f","i","l","e","-","f","o","l","d","e","r">>,
      <<"f","i","l","e","_","f","o","l","d","e","r","_","o","p","e","n","i","n","g">>,
      <<"f","i","l","e">> }
ScopeLiterals_DELETED_ITEMS ==
    { CATEGORY_DELETED_ITEMS,
      <<"d","e","l","e","t","e","d">>,
      <<"d","e","l","e","t","e","d","-","i","t","e","m","s">>,
      <<"d","e","l","e","t","e","d","_","i","t","e","m","s">>,
      <<"f","i","l","e","-","e","x","i","s","t","e","n","c","e">> }
ScopeLiterals_BROWSER_ACTIVITY ==
    { CATEGORY_BROWSER_ACTIVITY,
      <<"b","r","o","w","s","e","r">>,
      <<"b","r","o","w","s","e","r","-","a","c","t","i","v","i","t","y">>,
      <<"b","r","o","w","s","e","r","_","a","c","t","i","v","i","t","y">> }
ScopeLiterals_EXTERNAL_DEVICE ==
    { CATEGORY_EXTERNAL_DEVICE,
      <<"e","x","t","e","r","n","a","l">>,
      <<"e","x","t","e","r","n","a","l","-","d","e","v","i","c","e">>,
      <<"e","x","t","e","r","n","a","l","_","d","e","v","i","c","e">>,
      <<"u","s","b">>,
      <<"u","s","b","-","u","s","a","g","e">>,
      <<"u","s","b","_","u","s","a","g","e">> }

SCOPE_LABEL_TO_VALUE ==
    [label \in {SCOPE_VALUE_TO_LABEL(SCOPE_ORDER[i]) : i \in 1..Len(SCOPE_ORDER)} |->
        CHOOSE value \in SeqRange(SCOPE_ORDER) : SCOPE_VALUE_TO_LABEL(value) = label]

RDUMP_ARGS == <<"-C", "--multi-timestamp">>

TARGET_QUERY_BUNDLE ==
    <<
      [name |-> "Local users (target-query)",
       arguments |-> <<"-f", "users">>,
       output_suffix |-> "users",
       categories |-> <<CATEGORY_USER_INFORMATION>>],
      [name |-> "SAM user names (target-reg)",
       command |-> "target-reg",
       arguments |-> <<"-k", "HKEY_LOCAL_MACHINE\\SAM\\SAM\\Domains\\Account\\Users\\Names", "-d", "2">>,
       output_suffix |-> "sam_user_names",
       rdump_args |-> None,
       data_type |-> "openrelik:dissect:target-reg:text",
       decode_stdout |-> TRUE,
       categories |-> <<CATEGORY_USER_INFORMATION>>],
      [name |-> "All event logs",
       arguments |-> <<"-f", "evtx">>,
       output_suffix |-> "evtx",
       categories |-> <<CATEGORY_ALL_EVENT_LOGS>>],
      [name |-> "Generate a MFT Timeline",
       arguments |-> <<"-f", "mft.records">>,
       output_suffix |-> "mft_timeline",
       categories |-> <<CATEGORY_MFT_TIMELINE>>],
      [name |-> "Shimcache",
       arguments |-> <<"-f", "shimcache">>,
       output_suffix |-> "shimcache",
       categories |-> <<CATEGORY_APPLICATION_EXECUTION>>],
      [name |-> "Task Bar Feature Usage",
       arguments |-> <<"-f", "featureusage">>,
       output_suffix |-> "featureusage",
       categories |-> <<CATEGORY_APPLICATION_EXECUTION>>],
      [name |-> "Amcache.hve",
       arguments |-> <<"-f", "amcache">>,
       output_suffix |-> "amcache",
       categories |-> <<CATEGORY_APPLICATION_EXECUTION>>],
      [name |-> "Jump Lists",
       arguments |-> <<"-f", "jumplist">>,
       output_suffix |-> "jumplist",
       categories |-> <<CATEGORY_APPLICATION_EXECUTION>>],
      [name |-> "Open/Save MRU",
       arguments |-> <<"-f", "mru.opensave">>,
       output_suffix |-> "mru_opensave",
       categories |-> <<CATEGORY_FILE_FOLDER_OPENING>>],
      [name |-> "Recent Files (MRU)",
       arguments |-> <<"-f", "mru.recentdocs">>,
       output_suffix |-> "mru_recentdocs",
       categories |-> <<CATEGORY_FILE_FOLDER_OPENING>>],
      [name |-> "Shortcut (LNK) Files",
       arguments |-> <<"-f", "lnk">>,
       output_suffix |-> "lnk",
       categories |-> <<CATEGORY_FILE_FOLDER_OPENING, CATEGORY_DELETED_ITEMS, CATEGORY_EXTERNAL_DEVICE>>],
      [name |-> "Shell Bags",
       arguments |-> <<"-f", "shellbags">>,
       output_suffix |-> "shellbags",
       categories |-> <<CATEGORY_FILE_FOLDER_OPENING, CATEGORY_DELETED_ITEMS>>],
      [name |-> "Office Recent Files",
       arguments |-> <<"-f", "mru.msoffice">>,
       output_suffix |-> "mru_msoffice",
       categories |-> <<CATEGORY_FILE_FOLDER_OPENING>>],
      [name |-> "Office Trust Records",
       arguments |-> <<"-f", "trusteddocs">>,
       output_suffix |-> "trusteddocs",
       categories |-> <<CATEGORY_FILE_FOLDER_OPENING>>],
      [name |-> "Last Visited MRU",
       arguments |-> <<"-f", "mru">>,
       output_suffix |-> "mru",
       categories |-> <<CATEGORY_APPLICATION_EXECUTION>>],
      [name |-> "RunMRU",
       arguments |-> <<"-f", "runkeys">>,
       output_suffix |-> "runkeys",
       categories |-> <<CATEGORY_APPLICATION_EXECUTION>>],
      [name |-> "Windows 10 Timeline (ActivitiesCache.db)",
       arguments |-> <<"-f", "activitiescache">>,
       output_suffix |-> "activitiescache",
       categories |-> <<CATEGORY_APPLICATION_EXECUTION>>],
      [name |-> "BAM/DAM",
       arguments |-> <<"-f", "bam">>,
       output_suffix |-> "bam",
       categories |-> <<CATEGORY_APPLICATION_EXECUTION>>],
      [name |-> "SRUM (System Resource Usage Monitor)",
       arguments |-> <<"-f", "sru">>,
       output_suffix |-> "sru",
       categories |-> <<CATEGORY_APPLICATION_EXECUTION>>],
      [name |-> "Prefetch",
       arguments |-> <<"-f", "prefetch">>,
       output_suffix |-> "prefetch",
       categories |-> <<CATEGORY_APPLICATION_EXECUTION>>],
      [name |-> "CapabilityAccessManager",
       arguments |-> <<"-f", "cam">>,
       output_suffix |-> "cam",
       categories |-> <<CATEGORY_APPLICATION_EXECUTION>>],
      [name |-> "UserAssist",
       arguments |-> <<"-f", "userassist">>,
       output_suffix |-> "userassist",
       categories |-> <<CATEGORY_APPLICATION_EXECUTION>>],
      [name |-> "Installed Services",
       arguments |-> <<"-f", "services">>,
       output_suffix |-> "services",
       categories |-> <<CATEGORY_APPLICATION_EXECUTION>>],
      [name |-> "Recycle Bin",
       arguments |-> <<"-f", "recyclebin">>,
       output_suffix |-> "recyclebin",
       categories |-> <<CATEGORY_DELETED_ITEMS>>],
      [name |-> "Thumbcache",
       arguments |-> <<"-f", "thumbcache">>,
       output_suffix |-> "thumbcache",
       categories |-> <<CATEGORY_DELETED_ITEMS>>],
      [name |-> "Internet Explorer file:/// History",
       arguments |-> <<"-f", "iexplore.history">>,
       output_suffix |-> "iexplore_history",
       categories |-> <<CATEGORY_DELETED_ITEMS>>],
      [name |-> "Search - WordWheelQuery",
       arguments |-> <<"-f", "mru.acmru">>,
       output_suffix |-> "mru_acmru",
       categories |-> <<CATEGORY_DELETED_ITEMS>>],
      [name |-> "USB history (registry)",
       arguments |-> <<"-f", "usb">>,
       output_suffix |-> "usb",
       categories |-> <<CATEGORY_EXTERNAL_DEVICE>>],
      [name |-> "Removable device activity",
       arguments |-> <<"-f", "evtx">>,
       output_suffix |-> "evtx_removable_devices",
       categories |-> <<CATEGORY_EXTERNAL_DEVICE>>,
       rdump_args |-> <<"-C", "--multi-timestamp", "-s", "(r.EventID in [4663,4656,6416] and r.Channel == \"Security\") or (r.EventID in [20001,20003] and r.Channel == \"System\") or (r.EventID in [1006])">>],
      [name |-> "Browser (all below)",
       arguments |-> <<"-f", "browser">>,
       output_suffix |-> "browser",
       categories |-> <<CATEGORY_BROWSER_ACTIVITY>>],
      [name |-> "Browser Cookies",
       arguments |-> <<"-f", "browser.cookies">>,
       output_suffix |-> "browser_cookies",
       categories |-> <<CATEGORY_BROWSER_ACTIVITY>>],
      [name |-> "Browser Downloads",
       arguments |-> <<"-f", "browser.downloads">>,
       output_suffix |-> "browser_downloads",
       categories |-> <<CATEGORY_BROWSER_ACTIVITY>>],
      [name |-> "Browser Extensions",
       arguments |-> <<"-f", "browser.extensions">>,
       output_suffix |-> "browser_extensions",
       categories |-> <<CATEGORY_BROWSER_ACTIVITY>>],
      [name |-> "Browser History",
       arguments |-> <<"-f", "browser.history">>,
       output_suffix |-> "browser_history",
       categories |-> <<CATEGORY_BROWSER_ACTIVITY>>],
      [name |-> "Browser Passwords",
       arguments |-> <<"-f", "browser.passwords">>,
       output_suffix |-> "browser_passwords",
       categories |-> <<CATEGORY_BROWSER_ACTIVITY>>]
    >>

CatalogIds == 1..Len(TARGET_QUERY_BUNDLE)

(***************************************************************************)
(* Scope Normalizer                                                        *)
(***************************************************************************)
\* mutant: an unmatched item is kept as it was given
_normalise_scope_KeepsUnknown(scope) ==
    IF scope = None THEN CATEGORY_EVERYTHING
    ELSE LET raw == Strip(scope)
             lower == Lower(raw)
             known == {c \in SeqRange(SCOPE_ORDER) :
                          \/ raw = SCOPE_VALUE_TO_LABEL(c)
                          \/ lower = Lower(SCOPE_VALUE_TO_LABEL(c))
                          \/ lower = c /\ c # CATEGORY_USER_INFORMATION
                          \/ c = CATEGORY_EVERYTHING /\ lower \in ScopeLiterals_EVERYTHING
                          \/ c = CATEGORY_ALL_EVENT_LOGS /\ lower \in ScopeLiterals_ALL_EVENT_LOGS
                          \/ c = CATEGORY_MFT_TIMELINE /\ lower \in ScopeLiterals_MFT_TIMELINE
                          \/ c = CATEGORY_APPLICATION_EXECUTION
                                /\ lower \in ScopeLiterals_APPLICATION_EXECUTION
                          \/ c = CATEGORY_FILE_FOLDER_OPENING
                                /\ lower \in ScopeLiterals_FILE_FOLDER_OPENING
                          \/ c = CATEGORY_DELETED_ITEMS /\ lower \in ScopeLiterals_DELETED_ITEMS
                          \/ c = CATEGORY_BROWSER_ACTIVITY /\ lower \in ScopeLiterals_BROWSER_ACTIVITY
                          \/ c = CATEGORY_EXTERNAL_DEVICE /\ lower \in ScopeLiterals_EXTERNAL_DEVICE}
         IN  IF raw = <<>> THEN CATEGORY_EVERYTHING
             ELSE IF known # {} THEN CHOOSE c \in known : TRUE
             ELSE raw

_normalise_scope(scope) ==
    IF scope = None THEN CATEGORY_EVERYTHING
    ELSE LET raw == Strip(scope)
             lower == Lower(raw)
             byLabel == {i \in 1..Len(SCOPE_ORDER) :
                            lower = Lower(SCOPE_VALUE_TO_LABEL(SCOPE_ORDER[i]))}
         IN  IF raw = <<>> THEN CATEGORY_EVERYTHING
             ELSE IF raw \in DOMAIN SCOPE_LABEL_TO_VALUE THEN SCOPE_LABEL_TO_VALUE[raw]
             ELSE IF lower \in ScopeLiterals_EVERYTHING THEN CATEGORY_EVERYTHING
             ELSE IF lower \in ScopeLiterals_ALL_EVENT_LOGS THEN CATEGORY_ALL_EVENT_LOGS
             ELSE IF lower \in ScopeLiterals_MFT_TIMELINE THEN CATEGORY_MFT_TIMELINE
             ELSE IF lower \in ScopeLiterals_APPLICATION_EXECUTION
                  THEN CATEGORY_APPLICATION_EXECUTION
             ELSE IF lower \in ScopeLiterals_FILE_FOLDER_OPENING
                  THEN CATEGORY_FILE_FOLDER_OPENING
             ELSE IF lower \in ScopeLiterals_DELETED_ITEMS THEN CATEGORY_DELETED_ITEMS
             ELSE IF lower \in ScopeLiterals_BROWSER_ACTIVITY THEN CATEGORY_BROWSER_ACTIVITY
             ELSE IF lower \in ScopeLiterals_EXTERNAL_DEVICE THEN CATEGORY_EXTERNAL_DEVICE
             ELSE IF byLabel # {}
                  THEN SCOPE_ORDER[CHOOSE i \in byLabel : \A j \in byLabel : i <= j]
             ELSE CATEGORY_EVERYTHING

\* parts of one string item (line 446)
ScopeParts(item) ==
    IF Contains(item, ",")
    THEN With(Split(item, ","),
              LAMBDA pieces :
                  SelectSeq([i \in 1..Len(pieces) |-> With(pieces[i], Strip)],
                            LAMBDA part : part # <<>>))
    ELSE <<Strip(item)>>

\* mutant: the membership test of line 454 is dropped
RECURSIVE NormaliseParts_NoSeenCheck(_, _)
NormaliseParts_NoSeenCheck(parts, normalised) ==
    IF parts = <<>> THEN normalised
    ELSE IF Head(parts) = <<>> THEN NormaliseParts_NoSeenCheck(Tail(parts), normalised)
    ELSE NormaliseParts_NoSeenCheck(Tail(parts),
                                    Append(normalised, _normalise_scope(Head(parts))))

\* lines 450-455
RECURSIVE NormaliseParts(_, _)
NormaliseParts(parts, normalised) ==
    IF parts = <<>> THEN normalised
    ELSE LET part == Head(parts)
             scope_value == _normalise_scope(part)
         IN  IF part = <<>> THEN NormaliseParts(Tail(parts), normalised)
             ELSE IF scope_value \in SeqRange(normalised)
                  THEN NormaliseParts(Tail(parts), normalised)
                  ELSE NormaliseParts(Tail(parts), Append(normalised, scope_value))

RECURSIVE NormaliseItems(_, _)
NormaliseItems(raw_items, normalised) ==
    IF raw_items = <<>> THEN normalised
    ELSE LET item == Head(raw_items)
         IN  IF item = None THEN NormaliseItems(Tail(raw_items), normalised)
             ELSE With(With(ScopeParts(item),
                            LAMBDA parts : NormaliseParts(parts, normalised)),
                       LAMBDA seen : NormaliseItems(Tail(raw_items), seen))

\* raw_scopes is NoScopes (None), a single string [kind |-> "str", value |-> <<s>>]
\* or a collection [kind |-> "list", value |-> <<item, ...>>], every item None
\* or a string
\* mutant: the wildcard no longer absorbs the other categories
CollapseEverything_KeepOthers(normalised) == normalised

CollapseEverything(normalised) ==
    IF normalised = <<>> THEN <<>>
    ELSE IF CATEGORY_EVERYTHING \in SeqRange(normalised) THEN <<CATEGORY_EVERYTHING>>
    ELSE normalised

_normalise_scopes(raw, default_to_everything) ==
    IF raw.kind = "none"
    THEN (IF default_to_everything THEN <<CATEGORY_EVERYTHING>> ELSE <<>>)
    ELSE IF raw.kind = "list" /\ Len(raw.value) = 0 THEN <<>>
    ELSE LET raw_items == raw.value
         IN  With(NormaliseItems(raw_items, <<>>), CollapseEverything)

(***************************************************************************)
(* Preset Catalog & Selector                                               *)
(***************************************************************************)
\* mutant: only the first declared category counts
_preset_categories_FirstOnly(preset) ==
    IF "categories" \in DOMAIN preset
    THEN (IF preset.categories = <<>> THEN <<>> ELSE <<preset.categories[1]>>)
    ELSE IF "category" \in DOMAIN preset THEN <<preset.category>>
    ELSE <<>>

\* a key holding None is modelled as the key being absent
_preset_categories(preset) ==
    IF "categories" \in DOMAIN preset THEN preset.categories
    ELSE IF "category" \in DOMAIN preset THEN <<preset.category>>
    ELSE <<>>

\* presets are identified by their position in the catalog (id(preset))
_resolve_presets_for_scope(scope) ==
    IF scope = CATEGORY_EVERYTHING
    THEN [i \in CatalogIds |-> i]
    ELSE SelectSeq([i \in CatalogIds |-> i],
                   LAMBDA i : \E k \in 1..Len(_preset_categories(TARGET_QUERY_BUNDLE[i])) :
                                 _preset_categories(TARGET_QUERY_BUNDLE[i])[k] \in {scope})

\* mutant: the seen_ids test is dropped
AppendUnseen_NoSeenCheck(presets, selected) == selected \o presets

RECURSIVE AppendUnseen(_, _)
AppendUnseen(presets, selected) ==
    IF presets = <<>> THEN selected
    ELSE IF Head(presets) \in SeqRange(selected)
         THEN AppendUnseen(Tail(presets), selected)
         ELSE AppendUnseen(Tail(presets), Append(selected, Head(presets)))

RECURSIVE SelectForScopes(_, _)
SelectForScopes(sc, selected) ==
    IF sc = <<>> THEN selected
    ELSE SelectForScopes(Tail(sc),
                         AppendUnseen(_resolve_presets_for_scope(Head(sc)), selected))

\* mutant: an empty selection falls back to the whole catalog
SelectPresets_EmptyMeansAll(sc) ==
    IF CATEGORY_EVERYTHING \in SeqRange(sc) \/ SelectForScopes(sc, <<>>) = <<>>
    THEN [i \in CatalogIds |-> i]
    ELSE SelectForScopes(sc, <<>>)

SelectPresets(sc) ==
    IF CATEGORY_EVERYTHING \in SeqRange(sc)
    THEN [i \in CatalogIds |-> i]
    ELSE SelectForScopes(sc, <<>>)

(***************************************************************************)
(* State                                                                   *)
(***************************************************************************)
\* scope resolution
VARIABLES
    phase,                  \* position of the scope-resolution caller
    raw_scopes,             \* argument of _normalise_scopes
    default_to_everything,  \* keyword argument of _normalise_scopes
    scope_value,            \* result of _normalise_scope
    scopes,                 \* result of _normalise_scopes
    selected_presets        \* catalog positions chosen at lines 573-583

\* invocation harness: process-wide interpreter state and, per caller, the
\* locals of one invoke_console_script call
VARIABLES
    callers,        \* the tasks of this process that call the harness
    sys_argv,       \* sys.argv
    sys_stdin,      \* sys.stdin
    sys_stdout,     \* sys.stdout
    sys_stderr,     \* sys.stderr
    hpc,            \* position of each caller inside invoke_console_script
    call,           \* arguments of each caller's call
    before,         \* process-wide state each caller saw when it called
    original_argv,  \* local original_argv (line 122)
    old_targets,    \* streams saved by redirect_stdout / redirect_stderr
    op,             \* what the console script did: outcome and what it observed
    ret             \* value returned to each caller

\* one _run_bundle call, its environment and its collaborators
VARIABLES
    pc,                 \* position inside _run_bundle
    output_path,        \* argument output_path
    config,             \* argument task_config (a dict)
    resolved_inputs,    \* result of get_input_files
    found_plugins,      \* functions that find_functions reports (environment)
    default_writer,     \* result of _resolve_default_writer (environment)
    console_scripts,    \* console_scripts entry points installed (environment)
    catalog,            \* the module-level list TARGET_QUERY_BUNDLE as it is now
    caller,             \* SpecQuery: the arguments the task was called with
    received,           \* SpecQuery: the keyword arguments _run_query received
    find_queries,       \* SpecCache: function names find_functions was asked for
    answers,            \* SpecCache: every _plugin_available call and its answer
    plugin_cache,       \* lru_cache of _plugin_available
    yara_rule,          \* locals of _run_bundle from here on
    yara_rule_paths,
    available_presets,
    unavailable_presets,
    writer,             \* writer_uri, writer_enabled, case_name
    skipped_meta,
    yara,               \* yara_rule_path, yara_plugin_available, yara_arguments
    entry_index,        \* position of the for loop over resolved_inputs
    preset_index,       \* position of the for loop over available_presets
    pair,               \* locals of the current (input, preset) iteration
    output_files,
    meta_entries,
    temp_files,         \* temporary files that exist
    held_paths,         \* working paths held from materialize_target_path
    materialized,       \* every source path handed to materialize_target_path
    calls,              \* every harness invocation started, in order
    storage,            \* artifacts written through create_output_file
    result              \* how the call ended: report returned or error raised

scopeVars == <<phase, raw_scopes, default_to_everything, scope_value>>

selVars == <<scopes, selected_presets>>

sysVars == <<sys_argv, sys_stdin, sys_stdout, sys_stderr>>

callerVars == <<callers, hpc, call, before, original_argv, old_targets, op, ret>>

harnessVars == <<callers, sysVars, hpc, call, before, original_argv, old_targets, op, ret>>

envVars == <<output_path, config, resolved_inputs, found_plugins, default_writer,
            console_scripts, catalog, caller, received,
            find_queries, answers>>

setupVars == <<plugin_cache, yara_rule, yara_rule_paths, available_presets,
               unavailable_presets, writer, skipped_meta, yara>>

loopVars == <<entry_index, preset_index, pair, output_files, meta_entries>>

worldVars == <<temp_files, held_paths, materialized, calls, storage>>

bundleVars == <<pc, envVars, setupVars, loopVars, worldVars, result>>

notHarnessVars == <<scopeVars, selVars, bundleVars>>

vars == <<scopeVars, selVars, harnessVars, bundleVars>>

\* the parts of the state a specification does not use
ScopeIdle ==
    /\ phase = "idle"
    /\ raw_scopes = NoScopes
    /\ default_to_everything = TRUE
    /\ scope_value = None
    /\ scopes = <<>>
    /\ selected_presets = <<>>

HarnessIdle ==
    /\ callers = {}
    /\ sys_argv = <<>>
    /\ sys_stdin = "idle"
    /\ sys_stdout = "idle"
    /\ sys_stderr = "idle"
    /\ hpc = <<>>
    /\ call = <<>>
    /\ before = <<>>
    /\ original_argv = <<>>
    /\ old_targets = <<>>
    /\ op = <<>>
    /\ ret = <<>>

BundleIdle ==
    /\ pc = "idle"
    /\ output_path = ""
    /\ config = <<>>
    /\ resolved_inputs = <<>>
    /\ found_plugins = {}
    /\ default_writer = ""
    /\ console_scripts = {}
    /\ catalog = <<>>
    /\ caller = <<>>
    /\ received = <<>>
    /\ find_queries = <<>>
    /\ answers = <<>>
    /\ plugin_cache = <<>>
    /\ yara_rule = <<>>
    /\ yara_rule_paths = <<>>
    /\ available_presets = <<>>
    /\ unavailable_presets = <<>>
    /\ writer = <<>>
    /\ skipped_meta = <<>>
    /\ yara = <<>>
    /\ entry_index = 0
    /\ preset_index = 0
    /\ pair = <<>>
    /\ output_files = <<>>
    /\ meta_entries = <<>>
    /\ temp_files = {}
    /\ held_paths = {}
    /\ materialized = <<>>
    /\ calls = <<>>
    /\ storage = <<>>
    /\ result = <<>>

(***************************************************************************)
(* Invocation Harness: invoke_console_script (src/src/tasks.py)            *)
(***************************************************************************)
Stream(kind, owner) == [kind |-> kind, owner |-> owner]

\* sys.__stdin__, the interpreter's original standard input
SYS_STDIN0 == Stream("__stdin__", 0)

\* streams the process may have in place when a caller reaches the harness
StdinBefore == {SYS_STDIN0, Stream("replaced_stdin", 0)}

StdoutBefore == {Stream("__stdout__", 0), Stream("replaced_stdout", 0)}

StderrBefore == {Stream("__stderr__", 0)}

ArgvBefore == {<<"celery", "worker">>}

\* console_scripts entry points registered by the toolkit
RegisteredScripts == {"target-query", "rdump", "target-reg"}

NoValue == [kind |-> "unset", n |-> 0, s |-> ""]

IntValue(n) == [kind |-> "int", n |-> n, s |-> ""]

NoneValue == [kind |-> "none", n |-> 0, s |-> ""]

StrValue(s) == [kind |-> "str", n |-> 0, s |-> s]

\* any other object, e.g. a non-empty list
ObjValue == [kind |-> "object", n |-> 0, s |-> ""]

ExitCodes == {0, 1, 2}

ResultValues ==
    {IntValue(n) : n \in ExitCodes} \cup {NoneValue, StrValue(""), StrValue("error"), ObjValue}

\* what function() does: return a value, raise SystemExit(code), or raise
\* another exception
Outcomes ==
    {[how |-> "return", value |-> v] : v \in ResultValues}
        \cup {[how |-> "SystemExit", value |-> v] :
                 v \in {IntValue(n) : n \in ExitCodes} \cup {NoneValue, StrValue("usage")}}
        \cup {[how |-> "exception", value |-> NoValue]}

ExitCodeOf_ZeroOrOne(value) ==
    IF value = IntValue(0) \/ value = NoneValue \/ value = StrValue("") THEN 0 ELSE 1

\* lines 140-145
ExitCodeOf(value) ==
    IF value.kind = "int" THEN value.n
    ELSE IF value = NoneValue \/ value = StrValue("") THEN 0
    ELSE 1

HarnessCalls ==
    [script : RegisteredScripts \cup {"target-missing"},
     args : {<<"-C">>, <<"-f", "evtx", "/cases/disk.E01">>},
     stdin_data : {"None", "records"},
     decode_stdout : BOOLEAN]

\* when several tasks share the process, each makes one fixed call: task 1 a
\* primary invocation, the others a transform invocation
ThreadedCalls(t) ==
    IF t = 1
    THEN {[script |-> "target-query", args |-> <<"-f", "evtx", "/cases/disk.E01">>,
           stdin_data |-> "None", decode_stdout |-> FALSE]}
    ELSE {[script |-> "rdump", args |-> <<"-C">>,
           stdin_data |-> "records", decode_stdout |-> TRUE]}

ThreadedOutcomes ==
    {[how |-> "return", value |-> IntValue(0)], [how |-> "exception", value |-> NoValue]}

NoCall == [script |-> "", args |-> <<>>, stdin_data |-> "None", decode_stdout |-> TRUE]

NoSnapshot == [argv |-> <<>>, stdin |-> SYS_STDIN0, stdout |-> SYS_STDIN0, stderr |-> SYS_STDIN0]

Snapshot == [argv |-> sys_argv, stdin |-> sys_stdin, stdout |-> sys_stdout, stderr |-> sys_stderr]

NoOp == [how |-> "unset", value |-> NoValue, saw |-> NoSnapshot]

NoReturn == [exit_code |-> 0, stdout |-> "", stderr |-> ""]

InitHarnessFor(tasks, stdins, stdouts) ==
    /\ callers = tasks
    /\ sys_argv \in ArgvBefore
    /\ sys_stdin \in stdins
    /\ sys_stdout \in stdouts
    /\ sys_stderr \in StderrBefore
    /\ hpc = [t \in tasks |-> "idle"]
    /\ call = [t \in tasks |-> NoCall]
    /\ before = [t \in tasks |-> NoSnapshot]
    /\ original_argv = [t \in tasks |-> <<>>]
    /\ old_targets = [t \in tasks |-> [stdout |-> SYS_STDIN0, stderr |-> SYS_STDIN0]]
    /\ op = [t \in tasks |-> NoOp]
    /\ ret = [t \in tasks |-> NoReturn]

\* a task reaches invoke_console_script(script, args, stdin_data=, decode_stdout=)
HCall ==
    \E t \in callers :
        /\ hpc[t] = "idle"
        /\ \E c \in (IF Cardinality(callers) > 1 THEN ThreadedCalls(t) ELSE HarnessCalls) :
              call' = [call EXCEPT ![t] = c]
        /\ before' = [before EXCEPT ![t] = Snapshot]
        /\ hpc' = [hpc EXCEPT ![t] = "resolve"]
        /\ UNCHANGED <<notHarnessVars, callers, sysVars, original_argv, old_targets, op, ret>>

\* lines 104-120: _resolve_console_script raises for an unknown script
HResolve ==
    \E t \in callers :
        /\ hpc[t] = "resolve"
        /\ hpc' = [hpc EXCEPT ![t] =
                      IF call[t].script \in RegisteredScripts THEN "save_argv" ELSE "raised"]
        /\ UNCHANGED <<notHarnessVars, callers, sysVars, call, before, original_argv, old_targets, op, ret>>

\* line 122
HSaveArgv ==
    \E t \in callers :
        /\ hpc[t] = "save_argv"
        /\ original_argv' = [original_argv EXCEPT ![t] = sys_argv]
        /\ hpc' = [hpc EXCEPT ![t] = "set_argv"]
        /\ UNCHANGED <<notHarnessVars, callers, sysVars, call, before, old_targets, op, ret>>

\* line 123
HSetArgv ==
    \E t \in callers :
        /\ hpc[t] = "set_argv"
        /\ sys_argv' = <<call[t].script>> \o call[t].args
        /\ hpc' = [hpc EXCEPT ![t] = "enter_stdout"]
        /\ UNCHANGED <<notHarnessVars, callers, sys_stdin, sys_stdout, sys_stderr, call, before,
                       original_argv, old_targets, op, ret>>

\* line 125: contextlib.redirect_stdout.__enter__
HEnterStdout ==
    \E t \in callers :
        /\ hpc[t] = "enter_stdout"
        /\ old_targets' = [old_targets EXCEPT ![t].stdout = sys_stdout]
        /\ sys_stdout' = Stream("stdout_capture", t)
        /\ hpc' = [hpc EXCEPT ![t] = "enter_stderr"]
        /\ UNCHANGED <<notHarnessVars, callers, sys_argv, sys_stdin, sys_stderr, call, before,
                       original_argv, op, ret>>

\* line 125: contextlib.redirect_stderr.__enter__
HEnterStderr ==
    \E t \in callers :
        /\ hpc[t] = "enter_stderr"
        /\ old_targets' = [old_targets EXCEPT ![t].stderr = sys_stderr]
        /\ sys_stderr' = Stream("stderr_capture", t)
        /\ hpc' = [hpc EXCEPT ![t] = "set_stdin"]
        /\ UNCHANGED <<notHarnessVars, callers, sys_argv, sys_stdin, sys_stdout, call, before,
                       original_argv, op, ret>>

\* lines 126-127
HSetStdin ==
    \E t \in callers :
        /\ hpc[t] = "set_stdin"
        /\ sys_stdin' = IF call[t].stdin_data # "None" THEN Stream("stdin_buffer", t)
                        ELSE sys_stdin
        /\ hpc' = [hpc EXCEPT ![t] = "function"]
        /\ UNCHANGED <<notHarnessVars, callers, sys_argv, sys_stdout, sys_stderr, call, before,
                       original_argv, old_targets, op, ret>>

\* lines 128-131: the console script runs under the redirection
HFunction ==
    \E t \in callers :
        /\ hpc[t] = "function"
        /\ \E o \in (IF Cardinality(callers) > 1 THEN ThreadedOutcomes ELSE Outcomes) :
              op' = [op EXCEPT ![t] = [how |-> o.how, value |-> o.value, saw |-> Snapshot]]
        /\ hpc' = [hpc EXCEPT ![t] = "exit_stderr"]
        /\ UNCHANGED <<notHarnessVars, callers, sysVars, call, before, original_argv, old_targets, ret>>

\* line 125: contextlib.redirect_stderr.__exit__
HExitStderr ==
    \E t \in callers :
        /\ hpc[t] = "exit_stderr"
        /\ sys_stderr' = old_targets[t].stderr
        /\ hpc' = [hpc EXCEPT ![t] = "exit_stdout"]
        /\ UNCHANGED <<notHarnessVars, callers, sys_argv, sys_stdin, sys_stdout, call, before,
                       original_argv, old_targets, op, ret>>

\* line 125: contextlib.redirect_stdout.__exit__
HExitStdout ==
    \E t \in callers :
        /\ hpc[t] = "exit_stdout"
        /\ sys_stdout' = old_targets[t].stdout
        /\ hpc' = [hpc EXCEPT ![t] = "finally"]
        /\ UNCHANGED <<notHarnessVars, callers, sys_argv, sys_stdin, sys_stderr, call, before,
                       original_argv, old_targets, op, ret>>

\* value assigned to sys.stdin at line 134
FinallyStdin(t) == SYS_STDIN0

\* lines 132-138; an exception other than SystemExit leaves through here
HFinally ==
    \E t \in callers :
        /\ hpc[t] = "finally"
        /\ sys_argv' = original_argv[t]
        /\ sys_stdin' = FinallyStdin(t)
        /\ hpc' = [hpc EXCEPT ![t] = IF op[t].how = "exception" THEN "raised" ELSE "exit_code"]
        /\ UNCHANGED <<notHarnessVars, callers, sys_stdout, sys_stderr, call, before, original_argv,
                       old_targets, op, ret>>

\* lines 140-157
HReturn ==
    \E t \in callers :
        /\ hpc[t] = "exit_code"
        /\ ret' = [ret EXCEPT ![t] =
                      [exit_code |-> ExitCodeOf(op[t].value),
                       stdout |-> IF call[t].decode_stdout THEN "str" ELSE "bytes",
                       stderr |-> IF call[t].decode_stdout THEN "str" ELSE "bytes"]]
        /\ hpc' = [hpc EXCEPT ![t] = "returned"]
        /\ UNCHANGED <<notHarnessVars, callers, sysVars, call, before, original_argv, old_targets, op>>

NextHarness ==
    \/ HCall
    \/ HResolve
    \/ HSaveArgv
    \/ HSetArgv
    \/ HEnterStdout
    \/ HEnterStderr
    \/ HSetStdin
    \/ HFunction
    \/ HExitStderr
    \/ HExitStdout
    \/ HFinally
    \/ HReturn


\* one task calls the harness
InitHarness == InitHarnessFor({1}, StdinBefore, StdoutBefore) /\ ScopeIdle /\ BundleIdle

SpecHarness == InitHarness /\ [][NextHarness]_vars

\* two tasks of one worker process call the harness
InitHarnessThreads ==
    InitHarnessFor({1, 2}, {SYS_STDIN0}, {Stream("__stdout__", 0)}) /\ ScopeIdle /\ BundleIdle

SpecHarnessThreads == InitHarnessThreads /\ [][NextHarness]_vars

(***************************************************************************)
(* Scope inputs                                                            *)
(***************************************************************************)
Min(a, b) == IF a < b THEN a ELSE b

ScopeLiterals(c) ==
    CASE c = CATEGORY_EVERYTHING -> ScopeLiterals_EVERYTHING
      [] c = CATEGORY_ALL_EVENT_LOGS -> ScopeLiterals_ALL_EVENT_LOGS
      [] c = CATEGORY_MFT_TIMELINE -> ScopeLiterals_MFT_TIMELINE
      [] c = CATEGORY_APPLICATION_EXECUTION -> ScopeLiterals_APPLICATION_EXECUTION
      [] c = CATEGORY_FILE_FOLDER_OPENING -> ScopeLiterals_FILE_FOLDER_OPENING
      [] c = CATEGORY_DELETED_ITEMS -> ScopeLiterals_DELETED_ITEMS
      [] c = CATEGORY_BROWSER_ACTIVITY -> ScopeLiterals_BROWSER_ACTIVITY
      [] c = CATEGORY_EXTERNAL_DEVICE -> ScopeLiterals_EXTERNAL_DEVICE
      [] OTHER -> {}

Categories == SeqRange(SCOPE_ORDER)

\* every text under which category c is known: identifier, label, aliases
NamesOf(c) == {c, SCOPE_VALUE_TO_LABEL(c)} \cup ScopeLiterals(c)

CaseVariants(s) ==
    {s, Lower(s), Upper(s)}
        \cup {[Lower(s) EXCEPT ![i] = UpperChar(@)] : i \in 1..Min(MaxCasePos, Len(s))}

UnknownTexts ==
    { <<"r","e","g","i","s","t","r","y">>,
      <<"u","s","e","r","s">>,
      <<"a","l","l"," ","e","v","e","n","t","s">> }

Separators == { <<",">>, <<"\n">>, <<","," ">>, <<"\n",",">> }

JoinTexts ==
    { CATEGORY_BROWSER_ACTIVITY, Label_MFT_TIMELINE, <<"u","s","b">>, <<"a","l","l">>,
      CATEGORY_USER_INFORMATION, <<"u","s","e","r","s">> }

JoinedTexts == {a \o sep \o b : a \in JoinTexts, b \in JoinTexts, sep \in Separators}

\* three comma-separated names, two of them possibly of the same category
RepeatTexts ==
    { <<"u","s","b">>, <<"e","x","t","e","r","n","a","l">>, Label_MFT_TIMELINE,
      CATEGORY_MFT_TIMELINE }

RepeatedTexts ==
    {a \o <<",">> \o b \o <<","," ">> \o c : a \in RepeatTexts, b \in RepeatTexts,
                                             c \in RepeatTexts}

AllNames == UNION {NamesOf(c) : c \in Categories}

StrTexts ==
    UNION {CaseVariants(s) : s \in AllNames}
        \cup {<<" ">> \o s \o <<"\n">> : s \in AllNames}
        \cup UnknownTexts \cup JoinedTexts \cup RepeatedTexts \cup {<<>>, <<" ">>}

ListAliases ==
    { <<"a","l","l">>, <<"e","v","t","x">>, <<"m","f","t">>, <<"f","i","l","e">>,
      <<"d","e","l","e","t","e","d">>, <<"b","r","o","w","s","e","r">>, <<"u","s","b">>,
      <<"a","p","p","l","i","c","a","t","i","o","n">>,
      <<"e","x","t","e","r","n","a","l">> }

ListItems ==
    Categories \cup {SCOPE_VALUE_TO_LABEL(c) : c \in Categories} \cup ListAliases
        \cup {None, <<" ","a","l","l"," ">>, <<"u","s","e","r","s">>}

ListValues == UNION {[1..n -> ListItems] : n \in 0..MaxItems}

ScopeInputs ==
    {NoScopes} \cup {[kind |-> "str", value |-> <<s>>] : s \in StrTexts}
           \cup {[kind |-> "list", value |-> l] : l \in ListValues}

(***************************************************************************)
(* Scope resolution: the functions applied to drawn inputs                 *)
(***************************************************************************)
InitScope ==
    /\ phase = "input"
    /\ raw_scopes \in ScopeInputs
    /\ default_to_everything \in BOOLEAN
    /\ scope_value = None
    /\ scopes = <<>>
    /\ selected_presets = <<>>
    /\ HarnessIdle
    /\ BundleIdle

CallNormaliseScope ==
    /\ phase = "input"
    /\ raw_scopes.kind = "str"
    /\ scope_value' = _normalise_scope(raw_scopes.value[1])
    /\ phase' = "scope"
    /\ UNCHANGED <<raw_scopes, default_to_everything, selVars, harnessVars, bundleVars>>

CallNormaliseScopes ==
    /\ phase = "input"
    /\ scopes' = _normalise_scopes(raw_scopes, default_to_everything)
    /\ phase' = "scopes"
    /\ UNCHANGED <<raw_scopes, default_to_everything, scope_value, selected_presets, harnessVars, bundleVars>>

CallSelectPresets ==
    /\ phase = "scopes"
    /\ selected_presets' = SelectPresets(scopes)
    /\ phase' = "selected"
    /\ UNCHANGED <<raw_scopes, default_to_everything, scope_value, scopes, harnessVars, bundleVars>>

NextScope ==
    \/ CallNormaliseScope
    \/ CallNormaliseScopes
    \/ CallSelectPresets

SpecScope == InitScope /\ [][NextScope]_vars

(***************************************************************************)
(* Bundle orchestrator helpers (src/src/target_query_bundle.py)            *)
(***************************************************************************)
EmptyDict == [key \in {} |-> None]

\* dict.get(key) or default: None and empty values fall back to the default
GetOr(d, key, default) ==
    IF key \in DOMAIN d /\ d[key] # None /\ d[key] # <<>> THEN d[key] ELSE default

RECURSIVE IndexOf(_, _, _)
IndexOf(s, x, from) ==
    IF from > Len(s) THEN 0
    ELSE IF s[from] = x THEN from
    ELSE IndexOf(s, x, from + 1)

_extract_plugin_from_arguments(arguments) ==
    LET index == IndexOf(arguments, "-f", 1)
    IN  IF index = 0 THEN "None"
        ELSE IF index + 1 > Len(arguments) THEN "None"
        ELSE arguments[index + 1]

_plugin_available_Always(cache, found, function_name) == TRUE

_plugin_available_NoCache(cache, found, function_name) ==
    function_name = "None" \/ function_name \in found

\* _plugin_available under lru_cache: the answer for a descriptor already in
\* the cache is the cached one, otherwise find_functions is asked
_plugin_available(cache, found, function_name) ==
    IF function_name = "None" THEN TRUE
    ELSE IF function_name \in DOMAIN cache THEN cache[function_name]
    ELSE function_name \in found

\* the cache after _plugin_available was called for each name of the sequence
RECURSIVE CacheAfter(_, _, _)
CacheAfter(cache, found, names) ==
    IF names = <<>> THEN cache
    ELSE LET name == Head(names)
         IN  IF name = "None" \/ name \in DOMAIN cache
             THEN CacheAfter(cache, found, Tail(names))
             ELSE CacheAfter(cache @@ (name :> (name \in found)), found, Tail(names))

\* the names find_functions is asked for (line 389) while _plugin_available is
\* called for each name of the sequence
RECURSIVE FindQueries(_, _)
FindQueries(cache, names) ==
    IF names = <<>> THEN <<>>
    ELSE LET name == Head(names)
         IN  IF name = "None" \/ name \in DOMAIN cache
             THEN FindQueries(cache, Tail(names))
             ELSE <<name>> \o FindQueries(cache @@ (name :> TRUE), Tail(names))

\* the (preset, plugin_name) pairs of _classify_presets; a catalog preset is
\* referred to by its catalog position
PresetPairs(presets) ==
    [n \in 1..Len(presets) |->
        [id |-> presets[n],
         plugin |-> _extract_plugin_from_arguments(
                        Get(TARGET_QUERY_BUNDLE[presets[n]], "arguments", <<>>))]]

_classify_presets_AllAvailable(presets, cache, found) ==
    [available |-> PresetPairs(presets),
     unavailable |-> <<>>,
     cache |-> CacheAfter(cache, found,
                          [n \in 1..Len(presets) |-> PresetPairs(presets)[n].plugin])]

_classify_presets(presets, cache, found) ==
    With(PresetPairs(presets),
         LAMBDA pairs :
             With(CacheAfter(cache, found, [n \in 1..Len(pairs) |-> pairs[n].plugin]),
                  LAMBDA classified :
                      \* the answer for a preset is the one the cache holds
                      \* once its descriptor was asked for
                      LET isAvailable(p) == _plugin_available(classified, found, p.plugin)
                      IN  [available |-> SelectSeq(pairs, isAvailable),
                           unavailable |-> SelectSeq(pairs, LAMBDA p : ~isAvailable(p)),
                           cache |-> classified]))

\* temporary rule file made by tempfile.NamedTemporaryFile (lines 630-633)
TempRuleFile == "/tmp/rule.yar"

\* character strings that become argument tokens
Intern(text) ==
    CASE text = <<"/","r","/","a">> -> "/r/a"
      [] text = <<"/","r","/","b">> -> "/r/b"
      [] text = <<"/","c","/","x",".","E","0","1">> -> "/c/x.E01"
      [] text = <<"/","c","/","y">> -> "/c/y"
      [] OTHER -> "?"

RECURSIVE DedupSegments(_, _)
DedupSegments(segments, normalised) ==
    IF segments = <<>> THEN normalised
    ELSE LET cleaned == Strip(Head(segments))
         IN  IF cleaned = <<>> \/ cleaned \in SeqRange(normalised)
             THEN DedupSegments(Tail(segments), normalised)
             ELSE DedupSegments(Tail(segments), Append(normalised, cleaned))

RECURSIVE NormalisePathItems(_, _)
NormalisePathItems(raw_items, normalised) ==
    IF raw_items = <<>> THEN normalised
    ELSE LET item == Head(raw_items)
             text == Strip(item)
         IN  IF item = None \/ text = <<>>
             THEN NormalisePathItems(Tail(raw_items), normalised)
             ELSE With(With(SplitFrom(text, {"\n", ","}, <<>>),
                            LAMBDA segments : DedupSegments(segments, normalised)),
                       LAMBDA seen : NormalisePathItems(Tail(raw_items), seen))

\* raw_paths has the shape of raw_scopes: NoScopes, one string or a collection
_normalise_yara_rule_paths(raw_paths) ==
    IF raw_paths.kind = "none" THEN <<>>
    ELSE NormalisePathItems(raw_paths.value, <<>>)

YaraPresetName == "Yara (custom rule)"

YaraPreset_NoTransform(yara_arguments) ==
    [name |-> YaraPresetName,
     arguments |-> <<"-f", "yara", "-r">> \o yara_arguments,
     output_suffix |-> "yara",
     rdump_args |-> None,
     categories |-> <<>>]

\* the synthetic preset of lines 644-650
YaraPreset(yara_arguments) ==
    [name |-> YaraPresetName,
     arguments |-> <<"-f", "yara", "-r">> \o yara_arguments,
     output_suffix |-> "yara",
     rdump_args |-> RDUMP_ARGS,
     categories |-> <<>>]

\* Path(p).name and Path(p).stem
RECURSIVE LastIndexOf(_, _, _)
LastIndexOf(s, c, from) ==
    IF from = 0 THEN 0
    ELSE IF s[from] = c THEN from
    ELSE LastIndexOf(s, c, from - 1)

PathName(p) == SubSeq(p, LastIndexOf(p, "/", Len(p)) + 1, Len(p))

PathStem(p) ==
    LET name == PathName(p)
        dot == LastIndexOf(name, ".", Len(name))
    IN  IF dot > 1 /\ dot < Len(name) THEN SubSeq(name, 1, dot - 1) ELSE name

(***************************************************************************)
(* Inputs of a _run_bundle call                                            *)
(***************************************************************************)
MaxInputs == 2

EntryX == [path |-> <<"/","c","/","x",".","E","0","1">>, display_name |-> <<"x",".","E","0","1">>]

EntryY == [path |-> <<"/","c","/","y">>]

EntryNoPath == [display_name |-> <<"z",".","d","d">>]

InputEntries == {EntryX, EntryY, EntryNoPath}

InputLists ==
    {l \in UNION {[1..n -> InputEntries] : n \in 0..MaxInputs} :
        \A a, b \in 1..Len(l) : l[a] = l[b] => a = b}

ListOf(items) == [kind |-> "list", value |-> items]

StrOf(text) == [kind |-> "str", value |-> <<text>>]

ScopeConfigs ==
    {EmptyDict}
        \cup {[bundle_scopes |-> r] :
                 r \in {NoScopes, ListOf(<<>>), ListOf(<<Label_USER_INFORMATION>>),
                        ListOf(<<CATEGORY_MFT_TIMELINE>>), ListOf(<<<<"u","s","b">>>>),
                        StrOf(<<"e","v","t","x",","," ","m","f","t">>)}}
        \cup {[bundle_scope |-> r] : r \in {StrOf(CATEGORY_ALL_EVENT_LOGS)}}

RuleText == <<"r","u","l","e"," ","x","\n">>

RulePaths == StrOf(<<"/","r","/","a",",","/","r","/","b","\n"," ","/","r","/","a">>)

YaraConfigs ==
    {EmptyDict, [yara_rule |-> RuleText], [yara_rule_paths |-> RulePaths],
     [yara_rule |-> RuleText, yara_rule_paths |-> RulePaths]}

ConfigWriterUri == "elastic+http://es:9200?index=records"

DefaultWriterUri == "elastic+http://env:9200?index=default"

WriterConfigs ==
    {a @@ b : a \in {EmptyDict, [elastic_writer |-> ConfigWriterUri]},
              b \in {EmptyDict, [enable_record_writer |-> TRUE],
                     [enable_record_writer |-> FALSE]}}

CatalogPlugins ==
    {_extract_plugin_from_arguments(TARGET_QUERY_BUNDLE[n].arguments) : n \in CatalogIds}
        \ {"None"}

AllPlugins == CatalogPlugins \cup {"yara"}

MissingPlugins == {{}, {"evtx"}, {"yara"}, {"mft.records", "yara"}}

\* installations that lack one of the console scripts the run needs
MissingScripts == {{"target-query"}, {"target-reg"}, {"rdump"}}

\* the drawn runs: every selection with every rule configuration and plugin
\* set, export off; every export configuration on the user-information
\* presets (one target-query preset, one target-reg preset); and the
\* user-information presets on installations that lack a console script
RunInputs ==
    {[config |-> s @@ y, missing |-> m, default_writer |-> "None", inputs |-> l,
      scripts |-> RegisteredScripts] :
        s \in ScopeConfigs, y \in YaraConfigs, m \in MissingPlugins, l \in InputLists}
    \cup
    {[config |-> [bundle_scopes |-> ListOf(<<Label_USER_INFORMATION>>)] @@ y @@ w,
      missing |-> {}, default_writer |-> d, inputs |-> l, scripts |-> RegisteredScripts] :
        y \in {EmptyDict, [yara_rule |-> RuleText]}, w \in WriterConfigs,
        d \in {"None", DefaultWriterUri}, l \in InputLists}
    \cup
    {[config |-> [bundle_scopes |-> ListOf(<<Label_USER_INFORMATION>>)] @@ y,
      missing |-> {}, default_writer |-> "None", inputs |-> l,
      scripts |-> RegisteredScripts \ x] :
        y \in {EmptyDict, [yara_rule |-> RuleText]}, x \in MissingScripts,
        l \in InputLists}

(***************************************************************************)
(* _run_bundle (lines 538-823)                                             *)
(***************************************************************************)
NoText == <<>>

Error(kind, text, preset, input) ==
    [kind |-> kind, text |-> text, preset |-> preset, input |-> input]

NoError == Error("", NoText, "", NoText)

NoReport ==
    [output_files |-> <<>>, presets |-> <<>>, results |-> <<>>, skipped_presets |-> <<>>,
     selection |-> <<>>, selection_label |-> <<>>]

Running == [status |-> "running", error |-> NoError, report |-> NoReport]

Raised(error) == [status |-> "error", error |-> error, report |-> NoReport]

Returned(report) == [status |-> "report", error |-> NoError, report |-> report]

NoYara == [rule_path |-> "None", plugin_available |-> FALSE, arguments |-> <<>>]

NoWriter == [uri |-> "None", enabled |-> FALSE, case_name |-> "None"]

InitBundle ==
    /\ \E run \in RunInputs :
          /\ config = run.config
          /\ found_plugins = AllPlugins \ run.missing
          /\ default_writer = run.default_writer
          /\ resolved_inputs = run.inputs
          /\ console_scripts = run.scripts
    /\ catalog = TARGET_QUERY_BUNDLE
    /\ caller = <<>>
    /\ received = <<>>
    /\ find_queries = <<>>
    /\ answers = <<>>
    /\ output_path \in {"/out", ""}
    /\ pc = "start"
    /\ plugin_cache = EmptyDict
    /\ yara_rule = NoText
    /\ yara_rule_paths = <<>>
    /\ scopes = <<>>
    /\ selected_presets = <<>>
    /\ available_presets = <<>>
    /\ unavailable_presets = <<>>
    /\ writer = NoWriter
    /\ skipped_meta = <<>>
    /\ yara = NoYara
    /\ entry_index = 0
    /\ preset_index = 0
    /\ pair = <<>>
    /\ output_files = <<>>
    /\ meta_entries = <<>>
    /\ temp_files = {}
    /\ held_paths = {}
    /\ materialized = <<>>
    /\ calls = <<>>
    /\ storage = <<>>
    /\ result = Running
    /\ phase = "idle"
    /\ raw_scopes = NoScopes
    /\ default_to_everything = TRUE
    /\ scope_value = None
    /\ InitHarnessFor({}, StdinBefore, {Stream("__stdout__", 0)})

\* every raise inside _run_bundle ends the call; leaving the with block of
\* line 667 on the way out releases the working path
Raise(error) ==
    /\ result' = Raised(error)
    /\ held_paths' = {}
    /\ pc' = "done"

\* lines 547-555
BStart ==
    /\ pc = "start"
    /\ IF output_path = ""
       THEN Raise(Error("output_path_required", NoText, "", NoText))
       ELSE IF resolved_inputs = <<>>
       THEN Raise(Error("no_input_files", NoText, "", NoText))
       ELSE /\ pc' = "select"
            /\ UNCHANGED <<result, held_paths>>
    /\ UNCHANGED <<envVars, setupVars, loopVars, temp_files, materialized, calls, storage,
                   scopeVars, selVars, harnessVars>>

ConfiguredScopes_AlwaysDefault(cfg) ==
    IF "bundle_scopes" \in DOMAIN cfg THEN _normalise_scopes(cfg["bundle_scopes"], TRUE)
    ELSE IF "bundle_scope" \in DOMAIN cfg THEN _normalise_scopes(cfg["bundle_scope"], TRUE)
    ELSE _normalise_scopes(NoScopes, TRUE)

\* lines 559-569
ConfiguredScopes(cfg) ==
    LET given == IF "bundle_scopes" \in DOMAIN cfg
                 THEN _normalise_scopes(cfg["bundle_scopes"], FALSE)
                 ELSE IF "bundle_scope" \in DOMAIN cfg
                 THEN _normalise_scopes(cfg["bundle_scope"], TRUE)
                 ELSE _normalise_scopes(NoScopes, TRUE)
    IN  IF given = <<>> /\ "bundle_scopes" \notin DOMAIN cfg /\ "bundle_scope" \notin DOMAIN cfg
        THEN <<CATEGORY_EVERYTHING>>
        ELSE given

\* lines 557-591: selection, classification and the two selection errors
BSelect ==
    /\ pc = "select"
    /\ \E sc \in {ConfiguredScopes(config)},
          rule \in {Strip(GetOr(config, "yara_rule", NoText))},
          paths \in {_normalise_yara_rule_paths(Get(config, "yara_rule_paths", NoScopes))} :
       \E selected \in {SelectPresets(sc)} :
       \E classified \in {_classify_presets(selected, plugin_cache, found_plugins)} :
       LET noRules == rule = NoText /\ paths = <<>>
       IN  /\ scopes' = sc
           /\ yara_rule' = rule
           /\ yara_rule_paths' = paths
           /\ selected_presets' = selected
           /\ IF selected = <<>> /\ noRules
              THEN /\ Raise(Error("no_presets_match", NoText, "", NoText))
                   /\ UNCHANGED <<available_presets, unavailable_presets, plugin_cache>>
              ELSE /\ available_presets' = classified.available
                   /\ unavailable_presets' = classified.unavailable
                   /\ plugin_cache' = classified.cache
                   /\ IF classified.available = <<>> /\ noRules
                      THEN Raise(Error("no_presets_available", NoText, "", NoText))
                      ELSE /\ pc' = "writer"
                           /\ UNCHANGED <<result, held_paths>>
    /\ UNCHANGED <<envVars, writer, skipped_meta, yara, loopVars, temp_files, materialized,
                   calls, storage, scopeVars, harnessVars>>

\* _normalize_writer_uri: a missing or blank value is None
_normalize_writer_uri(value) == IF value = "" THEN "None" ELSE value

BWriter_NoDestinationCheck ==
    /\ pc = "writer"
    /\ writer' = [uri |-> IF Get(config, "elastic_writer", "None") \notin {"None", ""}
                          THEN config["elastic_writer"] ELSE default_writer,
                  enabled |-> IF "enable_record_writer" \notin DOMAIN config
                              THEN Get(config, "elastic_writer", "None") \notin {"None", ""}
                              ELSE config["enable_record_writer"],
                  case_name |-> Get(config, "case_name", "None")]
    /\ pc' = "yara"
    /\ UNCHANGED <<envVars, plugin_cache, yara_rule, yara_rule_paths, available_presets,
                   unavailable_presets, skipped_meta, yara, loopVars, temp_files,
                   held_paths, materialized, calls, storage, result, scopeVars, selVars,
                   harnessVars>>

\* lines 593-607
BWriter ==
    /\ pc = "writer"
    /\ LET writer_uri_from_config ==
               _normalize_writer_uri(
                   IF Get(config, "elastic_writer", "None") \notin {"None", ""}
                   THEN config["elastic_writer"]
                   ELSE Get(config, "record_writer", "None"))
           writer_uri == IF writer_uri_from_config # "None" THEN writer_uri_from_config
                         ELSE default_writer
           writer_enabled == IF "enable_record_writer" \notin DOMAIN config
                             THEN writer_uri_from_config # "None"
                             ELSE config["enable_record_writer"]
           case_name == Get(config, "case_name", "None")
       IN  /\ writer' = [uri |-> writer_uri, enabled |-> writer_enabled,
                         case_name |-> case_name]
           /\ IF writer_enabled /\ writer_uri = "None"
              THEN Raise(Error("no_writer_uri", NoText, "", NoText))
              ELSE /\ pc' = "yara"
                   /\ UNCHANGED <<result, held_paths>>
    /\ UNCHANGED <<envVars, plugin_cache, yara_rule, yara_rule_paths, available_presets,
                   unavailable_presets, skipped_meta, yara, loopVars, temp_files,
                   materialized, calls, storage, scopeVars, selVars, harnessVars>>

PresetOf(ref, yara_arguments) ==
    IF ref.id = 0 THEN YaraPreset(yara_arguments) ELSE TARGET_QUERY_BUNDLE[ref.id]

BYara_AppendsToCatalog ==
    /\ pc = "yara"
    /\ LET skipped == [n \in 1..Len(unavailable_presets) |->
                          [preset |-> TARGET_QUERY_BUNDLE[unavailable_presets[n].id].name,
                           plugin |-> unavailable_presets[n].plugin]]
           yara_rule_path == IF yara_rule # NoText THEN TempRuleFile ELSE "None"
           yara_arguments ==
               (IF yara_rule # NoText THEN <<TempRuleFile>> ELSE <<>>)
                   \o [n \in 1..Len(yara_rule_paths) |-> Intern(yara_rule_paths[n])]
           available == _plugin_available(plugin_cache, found_plugins, "yara")
       IN  /\ temp_files' = IF yara_rule # NoText THEN temp_files \cup {TempRuleFile}
                            ELSE temp_files
           /\ IF yara_arguments = <<>>
              THEN /\ yara' = [rule_path |-> yara_rule_path, plugin_available |-> FALSE,
                               arguments |-> yara_arguments]
                   /\ skipped_meta' = skipped
                   /\ UNCHANGED <<available_presets, plugin_cache>>
              ELSE /\ plugin_cache' = CacheAfter(plugin_cache, found_plugins, <<"yara">>)
                   /\ yara' = [rule_path |-> yara_rule_path, plugin_available |-> available,
                               arguments |-> yara_arguments]
                   /\ IF available
                      THEN /\ available_presets' =
                                 Append(available_presets, [id |-> 0, plugin |-> "yara"])
                           /\ skipped_meta' = skipped
                      ELSE /\ skipped_meta' =
                                 Append(skipped, [preset |-> YaraPresetName, plugin |-> "yara"])
                           /\ UNCHANGED available_presets
    /\ catalog' = IF _plugin_available(plugin_cache, found_plugins, "yara")
                  THEN Append(catalog, YaraPreset(<<TempRuleFile>>))
                  ELSE catalog
    /\ entry_index' = 1
    /\ pc' = "next_input"
    /\ UNCHANGED <<output_path, config, resolved_inputs, found_plugins, default_writer,
                   console_scripts, caller, received, find_queries, answers, yara_rule, yara_rule_paths, unavailable_presets, writer,
                   preset_index, pair, output_files, meta_entries, held_paths, materialized,
                   calls, storage, result, scopeVars, selVars, harnessVars>>

\* lines 609-656: skip records, temporary rule file, synthetic preset
BYara ==
    /\ pc = "yara"
    /\ LET skipped == [n \in 1..Len(unavailable_presets) |->
                          [preset |-> TARGET_QUERY_BUNDLE[unavailable_presets[n].id].name,
                           plugin |-> unavailable_presets[n].plugin]]
           yara_rule_path == IF yara_rule # NoText THEN TempRuleFile ELSE "None"
           yara_arguments ==
               (IF yara_rule # NoText THEN <<TempRuleFile>> ELSE <<>>)
                   \o [n \in 1..Len(yara_rule_paths) |-> Intern(yara_rule_paths[n])]
           available == _plugin_available(plugin_cache, found_plugins, "yara")
       IN  /\ temp_files' = IF yara_rule # NoText THEN temp_files \cup {TempRuleFile}
                            ELSE temp_files
           /\ IF yara_arguments = <<>>
              THEN /\ yara' = [rule_path |-> yara_rule_path, plugin_available |-> FALSE,
                               arguments |-> yara_arguments]
                   /\ skipped_meta' = skipped
                   /\ UNCHANGED <<available_presets, plugin_cache>>
              ELSE /\ plugin_cache' = CacheAfter(plugin_cache, found_plugins, <<"yara">>)
                   /\ yara' = [rule_path |-> yara_rule_path, plugin_available |-> available,
                               arguments |-> yara_arguments]
                   /\ IF available
                      THEN /\ available_presets' =
                                 Append(available_presets, [id |-> 0, plugin |-> "yara"])
                           /\ skipped_meta' = skipped
                      ELSE /\ skipped_meta' =
                                 Append(skipped, [preset |-> YaraPresetName, plugin |-> "yara"])
                           /\ UNCHANGED available_presets
    /\ entry_index' = 1
    /\ pc' = "next_input"
    /\ UNCHANGED <<envVars, yara_rule, yara_rule_paths, unavailable_presets, writer,
                   preset_index, pair, output_files, meta_entries, held_paths, materialized,
                   calls, storage, result, scopeVars, selVars, harnessVars>>

\* diagnostics a failing tool may leave on standard error
DiagTexts ==
    { NoText, <<" ","\n">>, <<"b","o","o","m">>, <<" ","b","o","o","m","\n">> }

NoData == [kind |-> "none", input |-> 0, preset |-> "", type |-> "str"]

Records(input, preset, type) ==
    [kind |-> "records", input |-> input, preset |-> preset, type |-> type]

\* bytes.decode / str.encode keep the content and change the type
Decoded(data) == [data EXCEPT !.type = "str"]

Encoded(data) == [data EXCEPT !.type = "bytes"]

\* what rdump writes to standard output for the records it read
Csv(stdin_data) == [stdin_data EXCEPT !.kind = "csv", !.type = "str"]

\* materialize_target_path: the working path of a source path
materialize_target_path(source_path) == Intern(source_path)

\* quote_command joins the tokens; the token sequence stands for the text
quote_command(command) == command

_bundle_command_display(source_path, arguments, command) ==
    quote_command(<<command, source_path>> \o arguments)

\* one invoke_console_script call of the run: its arguments, the exit code
\* and standard error it returned, and the (input, preset) pair it ran for
Invocation(stage, script, args, stdin_data, decode_stdout, exit_code, stderr) ==
    [stage |-> stage, script |-> script, args |-> args, stdin_data |-> stdin_data,
     decode_stdout |-> decode_stdout, exit_code |-> exit_code, stderr |-> stderr,
     entry |-> entry_index, preset |-> preset_index]

\* exit codes other than 0 that a tool returns
FailureCodes == {1}

\* what a completed invoke_console_script call leaves of the process-wide
\* state (tasks.py lines 122-134): sys.argv and the redirected streams are put
\* back, sys.stdin is set to sys.__stdin__
Invoked ==
    /\ sys_stdin' = FinallyStdin(0)
    /\ UNCHANGED <<callerVars, sys_argv, sys_stdout, sys_stderr>>

\* the error of _resolve_console_script (tasks.py lines 87-88)
ScriptNotFound(script) ==
    Error("script_not_found", NoText, "", NoText) @@ [script |-> script]

CurrentEntry == resolved_inputs[entry_index]

CurrentRef == available_presets[preset_index]

CurrentPreset == PresetOf(CurrentRef, yara.arguments)

CommandName(preset) == Get(preset, "command", "target-query")

\* line 679-681
DecodeStdout(preset) == Get(preset, "decode_stdout", CommandName(preset) # "target-query")

RdumpArgs_IgnoresOverride(preset) ==
    IF "rdump_args" \in DOMAIN preset /\ preset.rdump_args = None THEN None
    ELSE IF CommandName(preset) = "target-query" THEN RDUMP_ARGS
    ELSE None

\* lines 714-715; "None" for a preset without a transform stage
RdumpArgs(preset) ==
    IF "rdump_args" \in DOMAIN preset THEN preset.rdump_args
    ELSE IF CommandName(preset) = "target-query" THEN RDUMP_ARGS
    ELSE None

CommandArgs_PathLast(prepared_source_path, preset) ==
    Get(preset, "arguments", <<>>) \o <<prepared_source_path>>

\* the arguments of the primary invocation (line 671)
CommandArgs(prepared_source_path, preset) ==
    <<prepared_source_path>> \o Get(preset, "arguments", <<>>)

\* the message of the error raised for a failed primary invocation (702-705)
PrimaryFailure(stderr_text, preset, display_name) ==
    IF Strip(stderr_text) # NoText
    THEN Error("diagnostic", Strip(stderr_text), "", NoText)
    ELSE Error("preset_failed", NoText, preset.name, display_name)

RdumpFailure_NoStrip(rdump_stderr, preset, display_name) ==
    IF rdump_stderr # NoText
    THEN Error("diagnostic", rdump_stderr, "", NoText)
    ELSE Error("rdump_failed", NoText, preset.name, NoText)

\* the message of the error raised for a failed transform invocation (743-746)
RdumpFailure(rdump_stderr, preset, display_name) ==
    IF Strip(rdump_stderr) # NoText
    THEN Error("diagnostic", Strip(rdump_stderr), "", NoText)
    ELSE Error("rdump_failed", NoText, preset.name, NoText)

BNextInput_StopsWithoutPath ==
    /\ pc = "next_input"
    /\ IF entry_index > Len(resolved_inputs) \/ "path" \notin DOMAIN CurrentEntry
       THEN /\ pc' = "cleanup"
            /\ UNCHANGED <<entry_index, preset_index, pair, held_paths, materialized>>
       ELSE LET source_path == CurrentEntry.path
                display_name == GetOr(CurrentEntry, "display_name", PathName(source_path))
                prepared == materialize_target_path(source_path)
            IN  /\ materialized' = Append(materialized, source_path)
                /\ held_paths' = held_paths \cup {prepared}
                /\ pair' = [display_name |-> display_name,
                            base_name |-> PathStem(display_name),
                            prepared_source_path |-> prepared]
                /\ preset_index' = 1
                /\ pc' = IF available_presets = <<>> THEN "release" ELSE "primary"
                /\ UNCHANGED entry_index
    /\ UNCHANGED <<envVars, setupVars, output_files, meta_entries, temp_files, calls,
                   storage, result, scopeVars, selVars, harnessVars>>

BNextInput_SkipsWithoutPresets ==
    /\ pc = "next_input"
    /\ IF entry_index > Len(resolved_inputs) \/ available_presets = <<>>
       THEN /\ pc' = "cleanup"
            /\ UNCHANGED <<entry_index, preset_index, pair, held_paths, materialized>>
       ELSE IF "path" \notin DOMAIN CurrentEntry
       THEN /\ entry_index' = entry_index + 1
            /\ UNCHANGED <<pc, preset_index, pair, held_paths, materialized>>
       ELSE LET source_path == CurrentEntry.path
                display_name == GetOr(CurrentEntry, "display_name", PathName(source_path))
                prepared == materialize_target_path(source_path)
            IN  /\ materialized' = Append(materialized, source_path)
                /\ held_paths' = held_paths \cup {prepared}
                /\ pair' = [display_name |-> display_name,
                            base_name |-> PathStem(display_name),
                            prepared_source_path |-> prepared]
                /\ preset_index' = 1
                /\ pc' = "primary"
                /\ UNCHANGED entry_index
    /\ UNCHANGED <<envVars, setupVars, output_files, meta_entries, temp_files, calls,
                   storage, result, scopeVars, selVars, harnessVars>>

\* lines 658-667: next entry of resolved_inputs; an entry without a path is
\* skipped, otherwise its working path is acquired
BNextInput ==
    /\ pc = "next_input"
    /\ IF entry_index > Len(resolved_inputs)
       THEN /\ pc' = "cleanup"
            /\ UNCHANGED <<entry_index, preset_index, pair, held_paths, materialized>>
       ELSE IF "path" \notin DOMAIN CurrentEntry
       THEN /\ entry_index' = entry_index + 1
            /\ UNCHANGED <<pc, preset_index, pair, held_paths, materialized>>
       ELSE LET source_path == CurrentEntry.path
                display_name == GetOr(CurrentEntry, "display_name", PathName(source_path))
                prepared == materialize_target_path(source_path)
            IN  /\ materialized' = Append(materialized, source_path)
                /\ held_paths' = held_paths \cup {prepared}
                /\ pair' = [display_name |-> display_name,
                            base_name |-> PathStem(display_name),
                            prepared_source_path |-> prepared]
                /\ preset_index' = 1
                /\ pc' = IF available_presets = <<>> THEN "release" ELSE "primary"
                /\ UNCHANGED entry_index
    /\ UNCHANGED <<envVars, setupVars, output_files, meta_entries, temp_files, calls,
                   storage, result, scopeVars, selVars, harnessVars>>

BPrimary_SkipsTransform ==
    /\ pc = "primary"
    /\ CommandName(CurrentPreset) \in console_scripts
    /\ LET preset == CurrentPreset
           command_name == CommandName(preset)
           decode_stdout == DecodeStdout(preset)
           type == IF decode_stdout THEN "str" ELSE "bytes"
           query_stdout == Records(entry_index, preset.name, type)
       IN  /\ calls' = Append(calls, Invocation("primary", command_name,
                                  CommandArgs(pair.prepared_source_path, preset),
                                  NoData, decode_stdout, 0, NoText))
           /\ pair' = [display_name |-> pair.display_name,
                       base_name |-> pair.base_name,
                       prepared_source_path |-> pair.prepared_source_path,
                       command_display |->
                           _bundle_command_display(pair.prepared_source_path,
                                                   Get(preset, "arguments", <<>>),
                                                   command_name),
                       query_stdout |-> query_stdout,
                       query_stderr |-> NoText,
                       record_bytes |-> NoData,
                       rdump_stdout |-> Decoded(query_stdout),
                       rdump_stderr |-> NoText,
                       rdump_command_display |-> <<>>,
                       output_extension |-> Get(preset, "output_extension", "txt"),
                       data_type |-> Get(preset, "data_type",
                                         "openrelik:dissect:target-query:text")]
    /\ pc' = "persist"
    /\ UNCHANGED <<envVars, setupVars, entry_index, preset_index, output_files,
                   meta_entries, temp_files, held_paths, materialized, storage, result,
                   scopeVars, selVars>>
    /\ Invoked

\* lines 669-686: the primary invocation returns exit code 0
BPrimary ==
    /\ pc = "primary"
    /\ CommandName(CurrentPreset) \in console_scripts
    /\ LET preset == CurrentPreset
           command_name == CommandName(preset)
           command_args == CommandArgs(pair.prepared_source_path, preset)
           decode_stdout == DecodeStdout(preset)
           type == IF decode_stdout THEN "str" ELSE "bytes"
       IN  /\ calls' = Append(calls, Invocation("primary", command_name, command_args,
                                                NoData, decode_stdout, 0, NoText))
           /\ pair' = [display_name |-> pair.display_name,
                       base_name |-> pair.base_name,
                       prepared_source_path |-> pair.prepared_source_path,
                       command_display |->
                           _bundle_command_display(pair.prepared_source_path,
                                                   Get(preset, "arguments", <<>>),
                                                   command_name),
                       query_stdout |-> Records(entry_index, preset.name, type),
                       query_stderr |-> NoText]
    /\ pc' = "transform"
    /\ UNCHANGED <<envVars, setupVars, entry_index, preset_index, output_files,
                   meta_entries, temp_files, held_paths, materialized, storage, result,
                   scopeVars, selVars>>
    /\ Invoked

BPrimaryFails_SkipAndContinue ==
    /\ pc = "primary"
    /\ CommandName(CurrentPreset) \in console_scripts
    /\ \E query_stderr \in DiagTexts, exit_code \in FailureCodes :
          calls' = Append(calls, Invocation("primary", CommandName(CurrentPreset),
                              CommandArgs(pair.prepared_source_path, CurrentPreset),
                              NoData, DecodeStdout(CurrentPreset), exit_code,
                              query_stderr))
    /\ IF preset_index < Len(available_presets)
       THEN preset_index' = preset_index + 1 /\ pc' = "primary"
       ELSE UNCHANGED preset_index /\ pc' = "release"
    /\ UNCHANGED <<envVars, setupVars, entry_index, pair, output_files, meta_entries,
                   temp_files, held_paths, materialized, storage, result, scopeVars,
                   selVars>>
    /\ Invoked

\* lines 682-705: the primary invocation returns a non-zero exit code
BPrimaryFails ==
    /\ pc = "primary"
    /\ CommandName(CurrentPreset) \in console_scripts
    /\ \E query_stderr \in DiagTexts :
      \E exit_code \in FailureCodes :
          LET preset == CurrentPreset
          IN  /\ calls' = Append(calls, Invocation("primary", CommandName(preset),
                                     CommandArgs(pair.prepared_source_path, preset),
                                     NoData, DecodeStdout(preset), exit_code,
                                     query_stderr))
              /\ Raise(PrimaryFailure(query_stderr, preset, pair.display_name))
    /\ UNCHANGED <<envVars, setupVars, loopVars, temp_files, materialized, storage,
                   scopeVars, selVars>>
    /\ Invoked

RecordBytes_AnyCommand(preset, query_stdout) ==
    IF writer.enabled /\ writer.uri # "None"
    THEN Encoded(query_stdout)
    ELSE NoData

\* lines 707-712
RecordBytes(preset, query_stdout) ==
    IF writer.enabled /\ writer.uri # "None" /\ CommandName(preset) = "target-query"
    THEN Encoded(query_stdout)
    ELSE NoData

\* lines 707-733, 748-752: no transform stage, or rdump returns exit code 0
BTransform ==
    /\ pc = "transform"
    /\ LET preset == CurrentPreset
           rdump_args == RdumpArgs(preset)
           record_bytes == RecordBytes(preset, pair.query_stdout)
       IN  IF rdump_args = None
           THEN /\ pair' = pair @@
                       [record_bytes |-> record_bytes,
                        rdump_stdout |-> Decoded(pair.query_stdout),
                        rdump_stderr |-> NoText,
                        rdump_command_display |-> <<>>,
                        output_extension |-> Get(preset, "output_extension", "txt"),
                        data_type |-> Get(preset, "data_type",
                                          "openrelik:dissect:target-query:text")]
                /\ UNCHANGED <<calls, harnessVars>>
           ELSE /\ "rdump" \in console_scripts
                /\ Invoked
                /\ calls' = Append(calls, Invocation("transform", "rdump", rdump_args,
                                                     pair.query_stdout, TRUE, 0,
                                                     NoText))
                /\ pair' = pair @@
                       [record_bytes |-> record_bytes,
                        rdump_stdout |-> Csv(pair.query_stdout),
                        rdump_stderr |-> NoText,
                        rdump_command_display |-> quote_command(<<"rdump">> \o rdump_args),
                        output_extension |-> Get(preset, "output_extension", "csv"),
                        data_type |-> Get(preset, "data_type",
                                          "openrelik:dissect:target-query:csv")]
    /\ pc' = "persist"
    /\ UNCHANGED <<envVars, setupVars, entry_index, preset_index, output_files,
                   meta_entries, temp_files, held_paths, materialized, storage, result,
                   scopeVars, selVars>>

\* lines 729-746: rdump returns a non-zero exit code
BTransformFails ==
    /\ pc = "transform"
    /\ "rdump" \in console_scripts
    /\ RdumpArgs(CurrentPreset) # None
    /\ \E rdump_stderr \in DiagTexts, rdump_exit \in FailureCodes :
          /\ calls' = Append(calls, Invocation("transform", "rdump",
                                               RdumpArgs(CurrentPreset),
                                               pair.query_stdout, TRUE, rdump_exit,
                                               rdump_stderr))
          /\ Raise(RdumpFailure(rdump_stderr, CurrentPreset, pair.display_name))
    /\ UNCHANGED <<envVars, setupVars, loopVars, temp_files, materialized, storage,
                   scopeVars, selVars>>
    /\ Invoked

\* lines 754-762: the artifact is created and written
BPersist ==
    /\ pc = "persist"
    /\ LET output_file ==
               [display_name |-> [base |-> pair.base_name,
                                  suffix |-> CurrentPreset.output_suffix],
                extension |-> pair.output_extension,
                data_type |-> pair.data_type,
                content |-> pair.rdump_stdout,
                entry |-> entry_index, preset |-> preset_index]
       IN  /\ storage' = Append(storage, output_file)
           /\ pair' = pair @@ [output_file |-> output_file]
    /\ pc' = IF writer.enabled /\ writer.uri # "None" /\ pair.record_bytes # NoData
             THEN "export" ELSE "record"
    /\ UNCHANGED <<envVars, setupVars, entry_index, preset_index, output_files,
                   meta_entries, temp_files, held_paths, materialized, calls, result,
                   scopeVars, selVars, harnessVars>>

\* _export_records_with_writer: the record bytes go through rdump once more,
\* with the destination in place of the conversion arguments
ExportArgs(writer_uri) == <<"-w", writer_uri>>

BExport_SendsTabular ==
    /\ pc = "export"
    /\ "rdump" \in console_scripts
    /\ calls' = Append(calls, Invocation("export", "rdump", ExportArgs(writer.uri),
                                         Encoded(pair.rdump_stdout), TRUE, 0, NoText))
    /\ pair' = pair @@ [writer_used |-> TRUE]
    /\ pc' = "record"
    /\ UNCHANGED <<envVars, setupVars, entry_index, preset_index, output_files,
                   meta_entries, temp_files, held_paths, materialized, storage, result,
                   scopeVars, selVars>>
    /\ Invoked

\* lines 764-773: the export returns
BExport ==
    /\ pc = "export"
    /\ "rdump" \in console_scripts
    /\ calls' = Append(calls, Invocation("export", "rdump", ExportArgs(writer.uri),
                                         pair.record_bytes, TRUE, 0, NoText))
    /\ pair' = pair @@ [writer_used |-> TRUE]
    /\ pc' = "record"
    /\ UNCHANGED <<envVars, setupVars, entry_index, preset_index, output_files,
                   meta_entries, temp_files, held_paths, materialized, storage, result,
                   scopeVars, selVars>>
    /\ Invoked

\* lines 766-772: the export raises
BExportFails ==
    /\ pc = "export"
    /\ "rdump" \in console_scripts
    /\ \E exit_code \in FailureCodes :
          calls' = Append(calls, Invocation("export", "rdump", ExportArgs(writer.uri),
                                            pair.record_bytes, TRUE, exit_code, NoText))
    /\ Raise(Error("export_failed", NoText, CurrentPreset.name, pair.display_name))
    /\ UNCHANGED <<envVars, setupVars, loopVars, temp_files, materialized, storage,
                   scopeVars, selVars>>
    /\ Invoked

\* the console script the run is about to invoke
NeededScript ==
    IF pc = "primary" THEN CommandName(CurrentPreset) ELSE "rdump"

BUnresolved_AfterStateChange ==
    /\ pc \in {"primary", "transform", "export"}
    /\ pc = "transform" => RdumpArgs(CurrentPreset) # None
    /\ NeededScript \notin console_scripts
    /\ calls' = Append(calls, Invocation(pc, NeededScript, <<>>, NoData, TRUE, 1, NoText))
    /\ Raise(ScriptNotFound(NeededScript))
    /\ Invoked
    /\ UNCHANGED <<envVars, setupVars, loopVars, temp_files, materialized, storage,
                   scopeVars, selVars>>

\* lines 682, 729, 766: _resolve_console_script finds no entry point, so
\* invoke_console_script raises before it touches the process state, and the
\* error leaves _run_bundle
BUnresolved ==
    /\ pc \in {"primary", "transform", "export"}
    /\ pc = "transform" => RdumpArgs(CurrentPreset) # None
    /\ NeededScript \notin console_scripts
    /\ Raise(ScriptNotFound(NeededScript))
    /\ UNCHANGED <<envVars, setupVars, loopVars, temp_files, materialized, calls,
                   storage, scopeVars, selVars, harnessVars>>

BRecord_RepeatsPair ==
    /\ pc = "record"
    /\ output_files' = Append(output_files, pair.output_file)
    /\ meta_entries' = Append(meta_entries, [input |-> pair.display_name,
                                             preset |-> CurrentPreset.name])
    /\ pair' = [display_name |-> pair.display_name,
                base_name |-> pair.base_name,
                prepared_source_path |-> pair.prepared_source_path]
    /\ IF preset_index < Len(available_presets)
       THEN preset_index' = preset_index + 1 /\ pc' = "primary"
       ELSE IF Len(output_files) < Len(available_presets)
       THEN UNCHANGED preset_index /\ pc' = "primary"
       ELSE UNCHANGED preset_index /\ pc' = "release"
    /\ UNCHANGED <<envVars, setupVars, entry_index, temp_files, held_paths, materialized,
                   calls, storage, result, scopeVars, selVars, harnessVars>>

BRecord_NoMetadata ==
    /\ pc = "record"
    /\ output_files' = Append(output_files, pair.output_file)
    /\ pair' = [display_name |-> pair.display_name,
                base_name |-> pair.base_name,
                prepared_source_path |-> pair.prepared_source_path]
    /\ IF preset_index < Len(available_presets)
       THEN preset_index' = preset_index + 1 /\ pc' = "primary"
       ELSE UNCHANGED preset_index /\ pc' = "release"
    /\ UNCHANGED <<envVars, setupVars, entry_index, meta_entries, temp_files, held_paths,
                   materialized, calls, storage, result, scopeVars, selVars, harnessVars>>

\* lines 775-791: the pair's artifact and metadata join the report, and the
\* for loop of line 668 moves on
BRecord ==
    /\ pc = "record"
    /\ LET writer_used == Get(pair, "writer_used", FALSE)
           entry_meta ==
               [input |-> pair.display_name,
                preset |-> CurrentPreset.name,
                plugin |-> CurrentRef.plugin,
                target_query_command |-> pair.command_display,
                rdump_command |-> pair.rdump_command_display,
                target_query_stderr |-> Strip(pair.query_stderr),
                rdump_stderr |-> Strip(pair.rdump_stderr)]
       IN  /\ output_files' = Append(output_files, pair.output_file)
           /\ meta_entries' = Append(meta_entries,
                  IF writer_used THEN entry_meta @@ [record_writer |-> writer.uri]
                  ELSE entry_meta)
    /\ pair' = [display_name |-> pair.display_name,
                base_name |-> pair.base_name,
                prepared_source_path |-> pair.prepared_source_path]
    /\ IF preset_index < Len(available_presets)
       THEN preset_index' = preset_index + 1 /\ pc' = "primary"
       ELSE UNCHANGED preset_index /\ pc' = "release"
    /\ UNCHANGED <<envVars, setupVars, entry_index, temp_files, held_paths, materialized,
                   calls, storage, result, scopeVars, selVars, harnessVars>>

BRelease_KeepsPath ==
    /\ pc = "release"
    /\ pair' = <<>>
    /\ entry_index' = entry_index + 1
    /\ pc' = "next_input"
    /\ UNCHANGED <<envVars, setupVars, preset_index, output_files, meta_entries,
                   temp_files, held_paths, materialized, calls, storage, result,
                   scopeVars, selVars, harnessVars>>

\* line 667: leaving the with block releases the working path; the for loop
\* of line 658 moves on
BRelease ==
    /\ pc = "release"
    /\ held_paths' = held_paths \ {pair.prepared_source_path}
    /\ pair' = <<>>
    /\ entry_index' = entry_index + 1
    /\ pc' = "next_input"
    /\ UNCHANGED <<envVars, setupVars, preset_index, output_files, meta_entries,
                   temp_files, materialized, calls, storage, result, scopeVars, selVars,
                   harnessVars>>

\* lines 793-794
BCleanup ==
    /\ pc = "cleanup"
    /\ temp_files' = IF yara.rule_path # "None" THEN temp_files \ {yara.rule_path}
                     ELSE temp_files
    /\ pc' = "finalize"
    /\ UNCHANGED <<envVars, setupVars, loopVars, held_paths, materialized, calls,
                   storage, result, scopeVars, selVars, harnessVars>>

ExecutedPresets_IncludesSkipped(available, yara_state, rule) ==
    [n \in 1..Len(available) |-> PresetOf(available[n], yara_state.arguments).name]
        \o [n \in 1..Len(unavailable_presets) |->
                TARGET_QUERY_BUNDLE[unavailable_presets[n].id].name]

\* lines 799-808: names of the available presets, each once, in order
ExecutedPresets(available, yara_state, rule) ==
    With([n \in 1..Len(available) |-> PresetOf(available[n], yara_state.arguments).name],
         LAMBDA names :
             With({n \in 1..Len(names) : \A m \in 1..(n - 1) : names[m] # names[n]},
                  LAMBDA first_seen :
                      With(SelectSeqIdx(Len(names), first_seen),
                           LAMBDA kept :
                               LET firsts == [k \in 1..Len(kept) |-> names[kept[k]]]
                               IN  IF yara_state.plugin_available
                                      /\ ~Contains(names, YaraPresetName)
                                      /\ rule # NoText
                                   THEN Append(firsts, YaraPresetName)
                                   ELSE firsts)))

\* lines 810-823
RunReport ==
    [output_files |-> output_files,
     presets |-> ExecutedPresets(available_presets, yara, yara_rule),
     results |-> meta_entries,
     skipped_presets |-> skipped_meta,
     selection |-> scopes,
     selection_label |-> [n \in 1..Len(scopes) |-> SCOPE_VALUE_TO_LABEL(scopes[n])]]

BFinalize_NoEmptyCheck ==
    /\ pc = "finalize"
    /\ result' = Returned(RunReport)
    /\ pc' = "done"
    /\ UNCHANGED <<envVars, setupVars, loopVars, temp_files, held_paths, materialized,
                   calls, storage, scopeVars, selVars, harnessVars>>

\* lines 796-823: an empty artifact list raises, otherwise the report returns
BFinalize ==
    /\ pc = "finalize"
    /\ IF output_files = <<>>
       THEN Raise(Error("no_outputs", NoText, "", NoText))
       ELSE /\ result' = Returned(RunReport)
            /\ pc' = "done"
            /\ UNCHANGED held_paths
    /\ UNCHANGED <<envVars, setupVars, loopVars, temp_files, materialized, calls,
                   storage, scopeVars, selVars, harnessVars>>

NextBundle ==
    \/ BStart
    \/ BSelect
    \/ BWriter
    \/ BYara
    \/ BNextInput
    \/ BPrimary
    \/ BPrimaryFails
    \/ BTransform
    \/ BTransformFails
    \/ BPersist
    \/ BExport
    \/ BExportFails
    \/ BUnresolved
    \/ BRecord
    \/ BRelease
    \/ BCleanup
    \/ BFinalize

Spec == InitBundle /\ [][NextBundle]_vars

\* every step of _run_bundle is a statement or a call that returns, so the
\* run keeps taking steps until it returns or raises
SpecTerminating == InitBundle /\ [][NextBundle]_vars /\ WF_vars(NextBundle)

(***************************************************************************)
(* _plugin_available over the life of one process: the classifications of  *)
(* successive runs share the lru_cache of line 382                         *)
(***************************************************************************)
MaxCalls == 3

\* catalog presets the runs classify: positions 1 (-f users), 2 (no -f) and
\* 4 (-f mft.records)
CachePresets == {1, 2, 4}

CacheSelections ==
    {l \in UNION {[1..n -> CachePresets] : n \in 1..2} :
        \A a, b \in 1..Len(l) : l[a] = l[b] => a = b}

\* what find_functions can report while the process lives
FoundSets == SUBSET {"users", "mft.records", "yara"}

\* one _plugin_available call: its argument, its answer, and whether the
\* toolkit had the function at that moment
Answer(function_name, available) ==
    [name |-> function_name, available |-> available,
     installed |-> function_name \in found_plugins]

\* line 588 of one run: _classify_presets(selected_presets)
CClassify ==
    /\ pc = "idle"
    /\ \E selected \in CacheSelections :
          LET classified == _classify_presets(selected, plugin_cache, found_plugins)
              pairs == PresetPairs(selected)
              plugins == [n \in 1..Len(pairs) |-> pairs[n].plugin]
              isAvailable(p) == \E n \in 1..Len(classified.available) :
                                    classified.available[n] = p
          IN  /\ Len(answers) + Len(selected) <= MaxCalls
              /\ plugin_cache' = classified.cache
              /\ find_queries' = find_queries \o FindQueries(plugin_cache, plugins)
              /\ answers' = answers \o
                     [n \in 1..Len(pairs) |-> Answer(pairs[n].plugin, isAvailable(pairs[n]))]
    /\ UNCHANGED <<pc, output_path, config, resolved_inputs, found_plugins, default_writer,
                   console_scripts, catalog, caller, received, yara_rule, yara_rule_paths, available_presets,
                   unavailable_presets, writer, skipped_meta, yara, loopVars, worldVars,
                   result, scopeVars, selVars, harnessVars>>

\* line 640 of one run: _plugin_available("yara")
CYara ==
    /\ pc = "idle"
    /\ Len(answers) < MaxCalls
    /\ plugin_cache' = CacheAfter(plugin_cache, found_plugins, <<"yara">>)
    /\ find_queries' = find_queries \o FindQueries(plugin_cache, <<"yara">>)
    /\ answers' = Append(answers,
                         Answer("yara", _plugin_available(plugin_cache, found_plugins, "yara")))
    /\ UNCHANGED <<pc, output_path, config, resolved_inputs, found_plugins, default_writer,
                   console_scripts, catalog, caller, received, yara_rule, yara_rule_paths, available_presets,
                   unavailable_presets, writer, skipped_meta, yara, loopVars, worldVars,
                   result, scopeVars, selVars, harnessVars>>

\* between two calls the installed toolkit changes
CToolkitChanges ==
    /\ pc = "idle"
    /\ \E found \in FoundSets \ {found_plugins} : found_plugins' = found
    /\ UNCHANGED <<pc, output_path, config, resolved_inputs, default_writer,
                   console_scripts, catalog, caller, received, find_queries, answers,
                   setupVars, loopVars, worldVars,
                   result, scopeVars, selVars, harnessVars>>

NextCache ==
    \/ CClassify
    \/ CYara
    \/ CToolkitChanges

InitCache == ScopeIdle /\ HarnessIdle /\ BundleIdle

SpecCache == InitCache /\ [][NextCache]_vars

(***************************************************************************)
(* The generic query runner _run_query and its two tasks, run_query        *)
(* (src/src/tasks.py) and run_target_info (src/src/target_info.py)         *)
(***************************************************************************)
\* tasks.py line 49
DEFAULT_QUERY == <<"t","a","r","g","e","t","-","i","n","f","o">>

TextTargetFs == <<" ","t","a","r","g","e","t","-","f","s">>

TextArguments == <<"-","q"," "," ","-","j"," ">>

NoConfig == [kind |-> "none", value |-> EmptyDict]

DictOf(d) == [kind |-> "dict", value |-> d]

\* task_config values a caller may pass: None or a dict
TaskConfigs ==
    {NoConfig} \cup
    {DictOf(q @@ a @@ c) :
        q \in {EmptyDict, [query |-> TextTargetFs], [query |-> None], [query |-> <<" ">>]},
        a \in {EmptyDict, [arguments |-> TextArguments], [arguments |-> NoText]},
        c \in {EmptyDict, [case_name |-> <<"c","1">>]}}

TaskNames == {"run_query", "run_target_info"}

CallerArguments ==
    [task : TaskNames, pipe_result : {"None"}, input_files : InputLists,
     output_path : {"/out", ""}, workflow_id : {"wf-789"}, task_config : TaskConfigs]

EffectiveConfig_Overwrites(task_config) ==
    DictOf([query |-> DEFAULT_QUERY, arguments |-> NoText] @@ task_config.value)

\* target_info.py lines 68-70: a copy of the caller's dict (of {} for None)
\* with the two defaults set where the key is missing
EffectiveConfig(task_config) ==
    DictOf(task_config.value @@ [query |-> DEFAULT_QUERY, arguments |-> NoText])

\* tasks.py lines 53-67 for a text without quotes or escapes
_parse_argument_string(argument_string) ==
    IF argument_string = None \/ argument_string = NoText THEN <<>>
    ELSE IF Strip(argument_string) = NoText THEN <<>>
    ELSE SelectSeq(SplitFrom(Strip(argument_string), Whitespace, <<>>),
                   LAMBDA piece : piece # <<>>)

\* tasks.py line 189: task_config or {}
ConfigOf(task_config) == task_config.value

\* tasks.py line 190
QueryName(cfg) == Strip(GetOr(cfg, "query", NoText))

\* tasks.py line 193
ArgumentTokens(cfg) == _parse_argument_string(Get(cfg, "arguments", None))

\* exit codes other than 0 that the tool returns
QueryFailureCodes == {1, 2}

QueryFailure_NoInput(stderr, query_name, display_name, exit_code) ==
    IF Strip(stderr) # NoText
    THEN Error("diagnostic", Strip(stderr), "", NoText)
    ELSE Error("query_failed", NoText, "", NoText)
             @@ [query |-> query_name, exit_code |-> exit_code]

\* the message of the error raised for a failed invocation (tasks.py 240-242)
QueryFailure(stderr, query_name, display_name, exit_code) ==
    IF Strip(stderr) # NoText
    THEN Error("diagnostic", Strip(stderr), "", NoText)
    ELSE Error("query_failed", NoText, "", display_name)
             @@ [query |-> query_name, exit_code |-> exit_code]

\* tasks.py lines 302-312: the task run_query hands its arguments on
QRunQuery ==
    /\ pc = "task"
    /\ caller.task = "run_query"
    /\ received' = caller
    /\ pc' = "q_start"
    /\ UNCHANGED <<output_path, config, resolved_inputs, found_plugins, default_writer,
                   console_scripts, catalog, caller, find_queries, answers, setupVars,
                   loopVars, worldVars, result, scopeVars, selVars, harnessVars>>

\* target_info.py lines 68-79
QRunTargetInfo ==
    /\ pc = "task"
    /\ caller.task = "run_target_info"
    /\ received' = [caller EXCEPT !.task_config = EffectiveConfig(caller.task_config)]
    /\ pc' = "q_start"
    /\ UNCHANGED <<output_path, config, resolved_inputs, found_plugins, default_writer,
                   console_scripts, catalog, caller, find_queries, answers, setupVars,
                   loopVars, worldVars, result, scopeVars, selVars, harnessVars>>

\* every raise inside _run_query ends the call
QRaise(error) ==
    /\ result' = Raised(error)
    /\ pc' = "done"

\* tasks.py lines 186-201
QStart ==
    /\ pc = "q_start"
    /\ LET cfg == ConfigOf(received.task_config)
       IN  /\ output_path' = received.output_path
           /\ IF received.output_path = ""
              THEN /\ QRaise(Error("output_path_required", NoText, "", NoText))
                   /\ UNCHANGED <<config, resolved_inputs, entry_index>>
              ELSE /\ config' = cfg
                   /\ IF QueryName(cfg) = NoText
                      THEN /\ QRaise(Error("no_query", NoText, "", NoText))
                           /\ UNCHANGED <<resolved_inputs, entry_index>>
                      ELSE /\ resolved_inputs' = received.input_files
                           /\ IF received.input_files = <<>>
                              THEN /\ QRaise(Error("no_input_files", NoText, "", NoText))
                                   /\ UNCHANGED entry_index
                              ELSE /\ entry_index' = 1
                                   /\ pc' = "q_next_input"
                                   /\ UNCHANGED result
    /\ UNCHANGED <<found_plugins, default_writer, console_scripts, catalog, caller,
                   received, find_queries, answers, setupVars, preset_index, pair,
                   output_files, meta_entries, worldVars, scopeVars, selVars, harnessVars>>

\* tasks.py lines 206-224: an entry without a path is skipped, otherwise the
\* output file object is created and the command is put together
QNextInput ==
    /\ pc = "q_next_input"
    /\ IF entry_index > Len(resolved_inputs)
       THEN /\ pc' = "q_finalize"
            /\ UNCHANGED <<entry_index, pair>>
       ELSE IF "path" \notin DOMAIN CurrentEntry
       THEN /\ entry_index' = entry_index + 1
            /\ UNCHANGED <<pc, pair>>
       ELSE LET source_path == CurrentEntry.path
                display_name == GetOr(CurrentEntry, "display_name", PathName(source_path))
                output_display_name == [stem |-> PathStem(display_name),
                                        query |-> QueryName(config)]
            IN  /\ pair' = [display_name |-> display_name,
                            output_file |-> [display_name |-> output_display_name,
                                             extension |-> "txt",
                                             data_type |-> "openrelik:dissect:query-result",
                                             entry |-> entry_index],
                            command_tokens |-> <<QueryName(config)>>
                                                  \o ArgumentTokens(config)
                                                  \o <<source_path>>]
                /\ pc' = "q_invoke"
                /\ UNCHANGED entry_index
    /\ UNCHANGED <<envVars, setupVars, preset_index, output_files, meta_entries,
                   worldVars, result, scopeVars, selVars, harnessVars>>

\* one _invoke_query call (tasks.py line 226) of the run
QueryInvocation(exit_code, stderr) ==
    [script |-> QueryName(config),
     args |-> ArgumentTokens(config) \o <<CurrentEntry.path>>,
     exit_code |-> exit_code, stderr |-> stderr, entry |-> entry_index]

\* tasks.py lines 226-258: the tool exits 0; its output is written and the
\* artifact and its metadata join the result
QInvoke ==
    /\ pc = "q_invoke"
    /\ \E stderr \in DiagTexts :
          /\ calls' = Append(calls, QueryInvocation(0, stderr))
          /\ meta_entries' = Append(meta_entries,
                 [input |-> pair.display_name,
                  output |-> pair.output_file.display_name,
                  command |-> quote_command(pair.command_tokens),
                  stderr |-> Strip(stderr)])
    /\ storage' = Append(storage, pair.output_file @@
                             [content |-> Records(entry_index, "", "str")])
    /\ output_files' = Append(output_files, pair.output_file)
    /\ pair' = <<>>
    /\ entry_index' = entry_index + 1
    /\ pc' = "q_next_input"
    /\ UNCHANGED <<envVars, setupVars, preset_index, temp_files, held_paths,
                   materialized, result, scopeVars, selVars, harnessVars>>

\* tasks.py lines 226-243: the tool exits non-zero
QInvokeFails ==
    /\ pc = "q_invoke"
    /\ \E stderr \in DiagTexts, exit_code \in QueryFailureCodes :
          /\ calls' = Append(calls, QueryInvocation(exit_code, stderr))
          /\ QRaise(QueryFailure(stderr, QueryName(config), pair.display_name, exit_code))
    /\ UNCHANGED <<envVars, setupVars, loopVars, temp_files, held_paths, materialized,
                   storage, scopeVars, selVars, harnessVars>>

\* tasks.py lines 260-273
QFinalize ==
    /\ pc = "q_finalize"
    /\ IF output_files = <<>>
       THEN QRaise(Error("no_outputs", NoText, "", NoText))
       ELSE /\ result' = Returned([output_files |-> output_files,
                                   command |-> quote_command(<<QueryName(config)>>
                                                   \o ArgumentTokens(config)),
                                   query |-> QueryName(config),
                                   arguments |-> ArgumentTokens(config),
                                   results |-> meta_entries])
            /\ pc' = "done"
    /\ UNCHANGED <<envVars, setupVars, loopVars, worldVars, scopeVars, selVars,
                   harnessVars>>

NextQuery ==
    \/ QRunQuery
    \/ QRunTargetInfo
    \/ QStart
    \/ QNextInput
    \/ QInvoke
    \/ QInvokeFails
    \/ QFinalize

InitQuery ==
    /\ caller \in CallerArguments
    /\ received = <<>>
    /\ pc = "task"
    /\ output_path = ""
    /\ config = <<>>
    /\ resolved_inputs = <<>>
    /\ found_plugins = {}
    /\ default_writer = ""
    /\ console_scripts = {}
    /\ catalog = <<>>
    /\ find_queries = <<>>
    /\ answers = <<>>
    /\ plugin_cache = <<>>
    /\ yara_rule = <<>>
    /\ yara_rule_paths = <<>>
    /\ available_presets = <<>>
    /\ unavailable_presets = <<>>
    /\ writer = <<>>
    /\ skipped_meta = <<>>
    /\ yara = <<>>
    /\ entry_index = 0
    /\ preset_index = 0
    /\ pair = <<>>
    /\ output_files = <<>>
    /\ meta_entries = <<>>
    /\ temp_files = {}
    /\ held_paths = {}
    /\ materialized = <<>>
    /\ calls = <<>>
    /\ storage = <<>>
    /\ result = Running
    /\ ScopeIdle
    /\ HarnessIdle

SpecQuery == InitQuery /\ [][NextQuery]_vars

(***************************************************************************)
(* Selection over the catalog the module holds when it is called           *)
(* (TARGET_QUERY_BUNDLE is a module attribute that the tests replace)      *)
(***************************************************************************)
MaxCatalog == 3

\* the shapes of preset that _preset_categories distinguishes (lines 500-510)
CatalogShapes ==
    { [name |-> "mft_timeline", categories |-> <<CATEGORY_MFT_TIMELINE>>],
      [name |-> "evtx",
       categories |-> <<CATEGORY_ALL_EVENT_LOGS, CATEGORY_APPLICATION_EXECUTION>>],
      [name |-> "uncategorised", categories |-> <<>>],
      [name |-> "undeclared"],
      [name |-> "single", category |-> CATEGORY_MFT_TIMELINE] }

Catalogs ==
    {TARGET_QUERY_BUNDLE}
        \cup {c \in UNION {[1..n -> CatalogShapes] : n \in 0..MaxCatalog} :
                 \A a, b \in 1..Len(c) : c[a] = c[b] => a = b}

SelectionCategories ==
    {CATEGORY_MFT_TIMELINE, CATEGORY_ALL_EVENT_LOGS, CATEGORY_APPLICATION_EXECUTION,
     CATEGORY_BROWSER_ACTIVITY}

\* the lists _normalise_scopes returns: empty, [everything], or categories
\* other than everything, each once
Selections ==
    {<<>>, <<CATEGORY_EVERYTHING>>}
        \cup {s \in UNION {[1..n -> SelectionCategories] : n \in 1..MaxItems} :
                 \A a, b \in 1..Len(s) : s[a] = s[b] => a = b}

ResolvePresetsIn_UncategorisedMatches(cat, scope) ==
    IF scope = CATEGORY_EVERYTHING
    THEN [i \in 1..Len(cat) |-> i]
    ELSE SelectSeq([i \in 1..Len(cat) |-> i],
                   LAMBDA i : \A k \in 1..Len(_preset_categories(cat[i])) :
                                 _preset_categories(cat[i])[k] \in {scope})

\* _resolve_presets_for_scope (lines 494-516) over the catalog cat; presets
\* are identified by their position in cat
ResolvePresetsIn(cat, scope) ==
    IF scope = CATEGORY_EVERYTHING
    THEN [i \in 1..Len(cat) |-> i]
    ELSE SelectSeq([i \in 1..Len(cat) |-> i],
                   LAMBDA i : \E k \in 1..Len(_preset_categories(cat[i])) :
                                 _preset_categories(cat[i])[k] \in {scope})

\* lines 576-583
RECURSIVE SelectForScopesIn(_, _, _)
SelectForScopesIn(cat, sc, selected) ==
    IF sc = <<>> THEN selected
    ELSE SelectForScopesIn(cat, Tail(sc),
                           AppendUnseen(ResolvePresetsIn(cat, Head(sc)), selected))

\* lines 573-583
SelectPresetsIn(cat, sc) ==
    IF CATEGORY_EVERYTHING \in SeqRange(sc)
    THEN [i \in 1..Len(cat) |-> i]
    ELSE SelectForScopesIn(cat, sc, <<>>)

\* _resolve_presets_for_scope called for one category
KResolve ==
    /\ phase = "catalog"
    /\ Len(scopes) = 1
    /\ selected_presets' = ResolvePresetsIn(catalog, scopes[1])
    /\ phase' = "resolved"
    /\ UNCHANGED <<raw_scopes, default_to_everything, scope_value, scopes, harnessVars,
                   bundleVars>>

\* the selection of _run_bundle (lines 573-583)
KSelect ==
    /\ phase = "catalog"
    /\ selected_presets' = SelectPresetsIn(catalog, scopes)
    /\ phase' = "selected"
    /\ UNCHANGED <<raw_scopes, default_to_everything, scope_value, scopes, harnessVars,
                   bundleVars>>

NextCatalog ==
    \/ KResolve
    \/ KSelect

InitCatalog ==
    /\ phase = "catalog"
    /\ catalog \in Catalogs
    /\ scopes \in Selections
    /\ selected_presets = <<>>
    /\ raw_scopes = NoScopes
    /\ default_to_everything = TRUE
    /\ scope_value = None
    /\ pc = "idle"
    /\ output_path = ""
    /\ config = <<>>
    /\ resolved_inputs = <<>>
    /\ found_plugins = {}
    /\ default_writer = ""
    /\ console_scripts = {}
    /\ caller = <<>>
    /\ received = <<>>
    /\ find_queries = <<>>
    /\ answers = <<>>
    /\ plugin_cache = <<>>
    /\ yara_rule = <<>>
    /\ yara_rule_paths = <<>>
    /\ available_presets = <<>>
    /\ unavailable_presets = <<>>
    /\ writer = <<>>
    /\ skipped_meta = <<>>
    /\ yara = <<>>
    /\ entry_index = 0
    /\ preset_index = 0
    /\ pair = <<>>
    /\ output_files = <<>>
    /\ meta_entries = <<>>
    /\ temp_files = {}
    /\ held_paths = {}
    /\ materialized = <<>>
    /\ calls = <<>>
    /\ storage = <<>>
    /\ result = <<>>
    /\ HarnessIdle

SpecCatalog == InitCatalog /\ [][NextCatalog]_vars

(***************************************************************************)
(* Properties of _run_bundle                                               *)
(***************************************************************************)
\* positions in calls of the primary and transform invocations that returned
\* a non-zero exit code
FailedStages ==
    {n \in 1..Len(calls) :
        calls[n].stage \in {"primary", "transform"} /\ calls[n].exit_code # 0}

\* C1: as soon as a primary or a transform invocation returns a non-zero exit
\* code the run raises: no further invocation is started, no artifact exists
\* for the failing (input, preset) pair, and no Run Report is returned.
C1_FailFast ==
    \A n \in FailedStages :
        /\ n = Len(calls)
        /\ pc = "done"
        /\ result.status = "error"
        /\ \A k \in 1..Len(storage) :
              ~(storage[k].entry = calls[n].entry /\ storage[k].preset = calls[n].preset)

\* a failure after an earlier pair produced an artifact, with work left over
C1_Witness ==
    /\ FailedStages # {}
    /\ storage # <<>>
    /\ \/ entry_index < Len(resolved_inputs)
       \/ preset_index < Len(available_presets)

\* C2: the temporary rule file created for inline rule text no longer exists
\* when the run ends, on every exit path.
C2_TempRuleFileRemoved ==
    pc = "done" => temp_files = {}

DisplayNameOf(entry) == GetOr(entry, "display_name", PathName(entry.path))

IsSubSeq(t, s) ==
    \E i \in 0..(Len(s) - Len(t)) : SubSeq(s, i + 1, i + Len(t)) = t

FailedPreset(n) == PresetOf(available_presets[calls[n].preset], yara.arguments)

C6_NoEmptyReport ==
    /\ result.status = "report" => result.report.output_files # <<>>
    /\ (pc = "done" /\ output_files = <<>>) => result.status = "error"

\* a run that went through every input and preset and produced nothing
C6_Witness ==
    /\ pc = "done"
    /\ result.error.kind = "no_outputs"
    /\ materialized # <<>>

\* catalog positions of the selected presets whose capability check is false
UnavailableIds ==
    {id \in SeqRange(selected_presets) :
        LET plugin == _extract_plugin_from_arguments(TARGET_QUERY_BUNDLE[id].arguments)
        IN  plugin # "None" /\ plugin \notin found_plugins}

PluginOf(id) == _extract_plugin_from_arguments(TARGET_QUERY_BUNDLE[id].arguments)

\* C7: for a selected catalog preset whose capability check returns false no
\* primary, transform or export invocation is ever made, its name is not in
\* the report's executed list, the skipped list holds one record for it with
\* its plugin name, and the run still succeeds when another preset produces an
\* artifact.
C7_UnavailableSkipped ==
    \A id \in UnavailableIds :
        /\ \A k \in 1..Len(calls) :
              /\ available_presets[calls[k].preset].id # id
              /\ calls[k].stage = "primary" =>
                    _extract_plugin_from_arguments(Tail(calls[k].args)) # PluginOf(id)
        /\ result.status = "report" =>
              /\ ~Contains(result.report.presets, TARGET_QUERY_BUNDLE[id].name)
              /\ Cardinality({k \in 1..Len(result.report.skipped_presets) :
                     result.report.skipped_presets[k] =
                         [preset |-> TARGET_QUERY_BUNDLE[id].name,
                          plugin |-> PluginOf(id)]}) = 1
        /\ (pc = "done" /\ output_files # <<>>
               /\ \A k \in 1..Len(calls) : calls[k].exit_code = 0) =>
              result.status = "report"

\* a report of a run in which one selected preset was skipped and another ran
C7_Witness ==
    /\ result.status = "report"
    /\ UnavailableIds # {}
    /\ result.report.presets # <<>>

(***************************************************************************)
(* Properties of the invocation harness                                    *)
(***************************************************************************)
HarnessDone(t) == hpc[t] \in {"returned", "raised"}

\* the caller's section between replacing sys.argv and restoring it
InFlight(t) ==
    hpc[t] \in {"enter_stdout", "enter_stderr", "set_stdin", "function",
                "exit_stderr", "exit_stdout", "finally"}

\* C3: after invoke_console_script returns or raises, sys.stdin, sys.stdout,
\* sys.stderr and sys.argv equal the values they had immediately before the
\* call, whatever they were, on every exit path.
C3_ProcessStateRestored ==
    \A t \in callers : HarnessDone(t) => Snapshot = before[t]

\* C4: at most one invoke_console_script call is in flight at any time: a
\* second task does not replace the process-wide state until the first has
\* restored it, every operation observes its own argument tokens and streams,
\* and the pre-call state is back once all calls have ended.
C4_OneInvocationInFlight ==
    /\ \A t, u \in callers : (InFlight(t) /\ InFlight(u)) => t = u
    /\ \A t \in callers :
          op[t].how # "unset" =>
              /\ op[t].saw.argv = <<call[t].script>> \o call[t].args
              /\ op[t].saw.stdout = Stream("stdout_capture", t)
              /\ op[t].saw.stderr = Stream("stderr_capture", t)
    /\ (callers # {} /\ \A t \in callers : HarnessDone(t)) =>
          /\ sys_argv \in ArgvBefore
          /\ sys_stdout = Stream("__stdout__", 0)
          /\ sys_stderr \in StderrBefore

(***************************************************************************)
(* Properties of scope resolution (checked under SpecScope)                *)
(***************************************************************************)
NoDuplicates(s) == \A i, j \in 1..Len(s) : s[i] = s[j] => i = j

CatalogOrdered(s) == \A i, j \in 1..Len(s) : i < j => s[i] < s[j]

\* the given text is a name of category c, letter case ignored
IsNameOf(text, c) == \E n \in NamesOf(c) : Lower(text) = Lower(n)

\* C8: _normalise_scope maps the canonical identifier, the display label and
\* every alias of each of the nine categories, in any letter case, to that
\* category.
C8_EveryNameResolvesToItsCategory ==
    phase = "scope" =>
        \A c \in Categories :
            IsNameOf(raw_scopes.value[1], c) => scope_value = c

\* position in the request of the first category that selects catalog preset p
FirstScope(sc, p) ==
    CHOOSE j \in 1..Len(sc) :
        /\ sc[j] \in SeqRange(TARGET_QUERY_BUNDLE[p].categories)
        /\ \A k \in 1..(j - 1) : sc[k] \notin SeqRange(TARGET_QUERY_BUNDLE[p].categories)

\* C9 (as stated): the selected preset list has no preset twice and lists the
\* presets in the relative order of the catalog, for categories requested in
\* any order.
C9_SelectionInCatalogOrder ==
    phase = "selected" =>
        NoDuplicates(selected_presets) /\ CatalogOrdered(selected_presets)

\* C9 (amended): the selected preset list has no preset twice; it holds exactly
\* the presets declaring a requested category; presets are grouped by the first
\* requested category that selects them, groups in request order, and catalog
\* order holds inside each group (and overall when everything is requested).
C9_SelectionDedupedInRequestOrder ==
    phase = "selected" =>
        /\ NoDuplicates(selected_presets)
        /\ IF CATEGORY_EVERYTHING \in SeqRange(scopes)
           THEN selected_presets = [i \in CatalogIds |-> i]
           ELSE /\ SeqRange(selected_presets) =
                      {p \in CatalogIds :
                          SeqRange(TARGET_QUERY_BUNDLE[p].categories) \cap SeqRange(scopes) # {}}
                /\ \A i, j \in 1..Len(selected_presets) :
                      i < j =>
                          LET a == FirstScope(scopes, selected_presets[i])
                              b == FirstScope(scopes, selected_presets[j])
                          IN  a < b \/ (a = b /\ selected_presets[i] < selected_presets[j])

\* two overlapping categories requested against catalog order
C9_Witness ==
    /\ phase = "selected"
    /\ scopes = <<CATEGORY_DELETED_ITEMS, CATEGORY_FILE_FOLDER_OPENING>>
    /\ Len(selected_presets) > 2
    /\ ~CatalogOrdered(selected_presets)

\* the texts under which the wildcard category may be given
IsEverythingItem(item) == item # None /\ IsNameOf(Strip(item), CATEGORY_EVERYTHING)

\* the items of a scope input: list elements, or the comma-separated pieces
GivenItems(raw) ==
    IF raw.kind = "list" THEN SeqRange(raw.value)
    ELSE IF raw.kind = "str" THEN SeqRange(Split(raw.value[1], ","))
    ELSE {}

\* C10: a scope input with at least one item that resolves to everything,
\* next to any other items in any position, normalises to exactly [everything].
C10_EverythingCollapses ==
    phase = "scopes" =>
        ((\E item \in GivenItems(raw_scopes) : IsEverythingItem(item))
            => scopes = <<CATEGORY_EVERYTHING>>)

\* the wildcard given as an alias in second position after another category
C10_Witness ==
    /\ phase = "scopes"
    /\ raw_scopes.kind = "list"
    /\ Len(raw_scopes.value) = 2
    /\ raw_scopes.value[1] = CATEGORY_BROWSER_ACTIVITY
    /\ raw_scopes.value[2] = <<"a","l","l">>
    /\ scopes = <<CATEGORY_EVERYTHING>>

\* how often catalog preset p occurs in a selection
Occurrences(s, p) == Cardinality({i \in 1..Len(s) : s[i] = p})

DeclaredCategories(p) == SeqRange(TARGET_QUERY_BUNDLE[p].categories)

\* C11: a catalog preset is selected, exactly once, exactly when at least one
\* of its declared categories is among the requested ones: a preset declaring
\* {A, B} is included once by {A} and excluded by a disjoint {C}.
C11_SelectedIffCategoryRequested ==
    (phase = "selected" /\ CATEGORY_EVERYTHING \notin SeqRange(scopes)) =>
        \A p \in CatalogIds :
            Occurrences(selected_presets, p) =
                (IF DeclaredCategories(p) \cap SeqRange(scopes) # {} THEN 1 ELSE 0)

\* one category of a preset that declares two is requested: the preset is in,
\* and a preset declaring only other categories is out
C11_Witness ==
    /\ phase = "selected"
    /\ scopes = <<CATEGORY_DELETED_ITEMS>>
    /\ \E p \in SeqRange(selected_presets) :
          DeclaredCategories(p) = {CATEGORY_FILE_FOLDER_OPENING, CATEGORY_DELETED_ITEMS}
    /\ \E p \in CatalogIds :
          /\ DeclaredCategories(p) = {CATEGORY_FILE_FOLDER_OPENING}
          /\ p \notin SeqRange(selected_presets)

\* the text is no identifier, label or alias of any category, in any case
Unrecognised(text) ==
    /\ Strip(text) # <<>>
    /\ \A c \in Categories : ~IsNameOf(Strip(text), c)

\* the comma-separated pieces of the items of a scope input
GivenPieces(raw) ==
    UNION {IF Contains(item, ",") THEN SeqRange(Split(item, ",")) ELSE {item} :
              item \in SeqRange(raw.value) \ {None}}

\* C12: a scope item that matches no identifier, label or alias resolves to
\* everything; a selection holding one unrecognised item next to valid
\* categories resolves to exactly [everything] and selects the whole catalog.
C12_UnmatchedFallsBackToEverything ==
    /\ (phase = "scope" /\ Unrecognised(raw_scopes.value[1]))
          => scope_value = CATEGORY_EVERYTHING
    /\ (phase \in {"scopes", "selected"}
          /\ \E piece \in GivenPieces(raw_scopes) : Unrecognised(piece))
          => scopes = <<CATEGORY_EVERYTHING>>
    /\ (phase = "selected"
          /\ \E piece \in GivenPieces(raw_scopes) : Unrecognised(piece))
          => selected_presets = [i \in CatalogIds |-> i]

\* an unrecognised item after a valid category, and the catalog selected
C12_Witness ==
    /\ phase = "selected"
    /\ raw_scopes.kind = "list"
    /\ Len(raw_scopes.value) = 2
    /\ raw_scopes.value[1] = CATEGORY_BROWSER_ACTIVITY
    /\ raw_scopes.value[2] = <<"u","s","e","r","s">>
    /\ Len(selected_presets) = Len(TARGET_QUERY_BUNDLE)

\* C13: in a single string, a newline separates category items as a comma
\* does: two distinct non-everything categories separated by a newline resolve
\* to exactly those two categories.
C13_NewlineSeparatesItems ==
    (phase = "scopes" /\ raw_scopes.kind = "str") =>
        \A a, b \in JoinTexts :
            LET x == _normalise_scope(a)
                y == _normalise_scope(b)
            IN  (/\ x # y
                 /\ x # CATEGORY_EVERYTHING
                 /\ y # CATEGORY_EVERYTHING
                 /\ raw_scopes.value[1] = a \o <<"\n">> \o b)
                    => scopes = <<x, y>>

(***************************************************************************)
(* Properties of selection, export and the dynamic preset in _run_bundle   *)
(***************************************************************************)
\* positions of resolved_inputs whose entry has a path
EntriesWithPath == {n \in 1..Len(resolved_inputs) : "path" \in DOMAIN resolved_inputs[n]}

PrimaryCalls == {k \in 1..Len(calls) : calls[k].stage = "primary"}

\* the preset a call was made for
CallPreset(k) == PresetOf(available_presets[calls[k].preset], yara.arguments)

IsDynamicCall(k) == available_presets[calls[k].preset].id = 0

RulesSupplied == "yara_rule" \in DOMAIN config \/ "yara_rule_paths" \in DOMAIN config

\* the run got past the checks of lines 547-555
Started == output_path # "" /\ resolved_inputs # <<>> /\ pc \notin {"start", "select"}

EmptySelectionRequested ==
    /\ "bundle_scopes" \in DOMAIN config
    /\ config.bundle_scopes \in {NoScopes, ListOf(<<>>)}
    /\ "yara_rule" \in DOMAIN config

\* C14: with bundle_scopes present and None or empty, and rule text supplied,
\* the selection is empty, no catalog preset is invoked, and a run that
\* returns its report has run exactly the dynamic preset once per input and
\* reports empty selection and selection_label; with neither bundle_scopes nor
\* bundle_scope in the configuration the selection is [everything].
C14_EmptySelectionRunsDynamicOnly ==
    /\ (EmptySelectionRequested /\ Started) =>
          /\ scopes = <<>>
          /\ selected_presets = <<>>
          /\ \A k \in 1..Len(calls) : IsDynamicCall(k)
          /\ \A k \in PrimaryCalls :
                _extract_plugin_from_arguments(calls[k].args) = "yara"
    /\ (EmptySelectionRequested /\ result.status = "report") =>
          /\ result.report.selection = <<>>
          /\ result.report.selection_label = <<>>
          /\ result.report.presets = <<YaraPresetName>>
          /\ \A n \in EntriesWithPath :
                Cardinality({k \in PrimaryCalls : calls[k].entry = n}) = 1
    /\ (Started /\ "bundle_scopes" \notin DOMAIN config
            /\ "bundle_scope" \notin DOMAIN config) =>
          scopes = <<CATEGORY_EVERYTHING>>

\* a dynamic-only run over two inputs that returned its report
C14_Witness ==
    /\ EmptySelectionRequested
    /\ result.status = "report"
    /\ Cardinality(EntriesWithPath) = 2
    /\ Cardinality(PrimaryCalls) = 2

\* lines 597-601, read from the configuration
ExportRequested ==
    IF "enable_record_writer" \in DOMAIN config
    THEN config.enable_record_writer
    ELSE "elastic_writer" \in DOMAIN config \/ "record_writer" \in DOMAIN config

\* the export ran for the k-th completed (input, preset) pair
ExportAttempted(k) ==
    \E c \in 1..Len(calls) :
        /\ calls[c].stage = "export"
        /\ calls[c].entry = output_files[k].entry
        /\ calls[c].preset = output_files[k].preset

CompletedPreset(k) == PresetOf(available_presets[output_files[k].preset], yara.arguments)

\* C15 as stated: for every completed (input, preset) pair, whatever the
\* preset's primary command, export is attempted if and only if the enable
\* flag is true, or the flag is absent and a destination URI is configured.
C15_ExportIffEnabled ==
    \A k \in 1..Len(output_files) : ExportAttempted(k) <=> ExportRequested

\* C15 amended: for every completed pair export is attempted if and only if
\* the enable flag is true, or absent with a destination URI configured, and
\* the preset's primary command is target-query; the pair's metadata names the
\* destination exactly then.
C15_ExportIffEnabledAndTargetQuery ==
    \A k \in 1..Len(output_files) :
        /\ ExportAttempted(k) <=>
              (ExportRequested /\ CommandName(CompletedPreset(k)) = "target-query")
        /\ ("record_writer" \in DOMAIN meta_entries[k]) <=>
              (ExportRequested /\ CommandName(CompletedPreset(k)) = "target-query")

\* export on by a configured destination alone: a target-query pair exported,
\* a target-reg pair completed without export
C15_Witness ==
    /\ "enable_record_writer" \notin DOMAIN config
    /\ ExportRequested
    /\ \E k \in 1..Len(output_files) :
          CommandName(CompletedPreset(k)) = "target-query" /\ ExportAttempted(k)
    /\ \E k \in 1..Len(output_files) :
          CommandName(CompletedPreset(k)) # "target-query" /\ ~ExportAttempted(k)

NoDestination ==
    /\ "elastic_writer" \notin DOMAIN config
    /\ "record_writer" \notin DOMAIN config
    /\ default_writer = "None"

\* C16: when export is enabled and neither the configuration nor the ambient
\* default yields a destination URI, the run raises before any harness
\* invocation, before any input path is materialized and before the
\* temporary rule file is created.
C16_NoDestinationRaisesFirst ==
    (ExportRequested /\ NoDestination) =>
        /\ calls = <<>>
        /\ materialized = <<>>
        /\ temp_files = {}
        /\ storage = <<>>
        /\ pc \notin {"yara", "next_input", "primary", "transform", "persist", "export",
                      "record", "release", "cleanup", "finalize"}
        /\ pc = "done" => result.status = "error"

\* the missing-destination error raised in a run that also carries rule text
C16_Witness ==
    /\ result.error.kind = "no_writer_uri"
    /\ "yara_rule" \in DOMAIN config
    /\ ExportRequested
    /\ NoDestination

\* catalog presets declaring a requested category
Matching ==
    {p \in CatalogIds :
        \/ CATEGORY_EVERYTHING \in SeqRange(scopes)
        \/ DeclaredCategories(p) \cap SeqRange(scopes) # {}}

MatchingAvailable ==
    {p \in Matching : PluginOf(p) = "None" \/ PluginOf(p) \in found_plugins}

\* C17: without rule text and rule paths, a selection matching no catalog
\* preset fails with the no-presets-match error and a selection whose presets
\* are all unavailable fails with the distinct no-presets-available error,
\* both before any harness invocation and before any path is materialized.
C17_SelectionErrors ==
    (Started /\ ~RulesSupplied) =>
        /\ Matching = {} =>
              /\ pc = "done"
              /\ result.error.kind = "no_presets_match"
              /\ calls = <<>>
              /\ materialized = <<>>
        /\ (Matching # {} /\ MatchingAvailable = {}) =>
              /\ pc = "done"
              /\ result.error.kind = "no_presets_available"
              /\ calls = <<>>
              /\ materialized = <<>>

\* matched presets exist and none is available
C17_Witness ==
    /\ Started
    /\ ~RulesSupplied
    /\ Matching # {}
    /\ MatchingAvailable = {}
    /\ result.error.kind = "no_presets_available"

DynamicPositions == {n \in 1..Len(available_presets) : available_presets[n].id = 0}

\* C18: with rule text and/or rule paths and the yara plugin available, one
\* synthetic preset 'Yara (custom rule)' is added, after every catalog preset;
\* for each input it is invoked once, after the catalog presets of that input,
\* and its output goes through rdump with the default arguments.
C18_DynamicPresetLastAndTransformed ==
    (Started /\ RulesSupplied /\ "yara" \in found_plugins
        /\ pc \notin {"writer", "yara"} /\ result.error.kind # "no_writer_uri") =>
        /\ DynamicPositions = {Len(available_presets)}
        /\ PresetOf(available_presets[Len(available_presets)], yara.arguments).name = YaraPresetName
        /\ \A k \in PrimaryCalls :
              IsDynamicCall(k) =>
                  /\ calls[k].script = "target-query"
                  /\ \A j \in PrimaryCalls :
                        (calls[j].entry = calls[k].entry /\ j # k) =>
                            (j < k /\ ~IsDynamicCall(j))
                  /\ Cardinality({j \in PrimaryCalls :
                         calls[j].entry = calls[k].entry /\ ~IsDynamicCall(j)})
                       = Len(available_presets) - 1
                  /\ (calls[k].exit_code = 0 /\ k = Len(calls)) => pc = "transform"
                  /\ (calls[k].exit_code = 0 /\ k < Len(calls)) =>
                        /\ calls[k + 1].stage = "transform"
                        /\ calls[k + 1].script = "rdump"
                        /\ calls[k + 1].args = RDUMP_ARGS
                        /\ calls[k + 1].entry = calls[k].entry
                        /\ IsDynamicCall(k + 1)
        /\ result.status = "report" =>
              \A n \in EntriesWithPath :
                  Cardinality({k \in PrimaryCalls :
                      IsDynamicCall(k) /\ calls[k].entry = n}) = 1

\* a report of a run with catalog presets, rule text and rule paths, two inputs
C18_Witness ==
    /\ result.status = "report"
    /\ "yara_rule" \in DOMAIN config
    /\ "yara_rule_paths" \in DOMAIN config
    /\ Len(available_presets) > 1
    /\ DynamicPositions # {}
    /\ Cardinality(EntriesWithPath) = 2

DynamicSkipRecord == [preset |-> YaraPresetName, plugin |-> "yara"]

\* C19: with rule text or rule paths and the yara plugin unavailable, the
\* dynamic preset is never invoked, one skip record {Yara (custom rule), yara}
\* is added, and no error comes of it: a run in which a catalog preset
\* produced an artifact and no invocation failed returns a report that holds
\* the skip record.
C19_DynamicPresetSkipped ==
    (Started /\ RulesSupplied /\ "yara" \notin found_plugins) =>
        /\ DynamicPositions = {}
        /\ \A k \in PrimaryCalls :
              _extract_plugin_from_arguments(calls[k].args) # "yara"
        /\ (pc \notin {"writer", "yara"} /\ result.error.kind # "no_writer_uri") =>
              Cardinality({n \in 1..Len(skipped_meta) :
                  skipped_meta[n] = DynamicSkipRecord}) = 1
        /\ result.status = "report" =>
              Cardinality({n \in 1..Len(result.report.skipped_presets) :
                  result.report.skipped_presets[n] = DynamicSkipRecord}) = 1
        /\ (pc = "done" /\ output_files # <<>>
               /\ \A k \in 1..Len(calls) : calls[k].exit_code = 0) =>
              result.status = "report"

\* a report that carries the skip record next to a catalog preset's result
C19_Witness ==
    /\ RulesSupplied
    /\ "yara" \notin found_plugins
    /\ result.status = "report"
    /\ Contains(result.report.skipped_presets, DynamicSkipRecord)
    /\ result.report.results # <<>>

WorkingPath(k) == materialize_target_path(resolved_inputs[calls[k].entry].path)

\* C20 as stated: the argument tokens of every primary invocation are the
\* preset's argument list followed by the input's working path as last token.
C20_WorkingPathLast ==
    \A k \in PrimaryCalls :
        calls[k].args = Get(CallPreset(k), "arguments", <<>>) \o <<WorkingPath(k)>>

\* C20 amended: the argument tokens of every primary invocation are the
\* input's working path as first token followed by the preset's argument list.
C20_WorkingPathFirst ==
    \A k \in PrimaryCalls :
        /\ calls[k].script = CommandName(CallPreset(k))
        /\ calls[k].args = <<WorkingPath(k)>> \o Get(CallPreset(k), "arguments", <<>>)

\* primary invocations of a target-query preset and of the target-reg preset
C20_Witness ==
    /\ \E k \in PrimaryCalls : calls[k].script = "target-reg" /\ Len(calls[k].args) > 2
    /\ \E k \in PrimaryCalls : calls[k].script = "target-query" /\ Len(calls[k].args) > 2
(***************************************************************************)
(* Properties of the input loop of _run_bundle (lines 658-791)             *)
(***************************************************************************)
\* the run is inside the with block of line 667
InsideInput == pc \in {"primary", "transform", "persist", "export", "record", "release"}

\* the source paths whose working path has been acquired when the loop of
\* line 658 stands at entry_index, in input order
AcquiredSoFar ==
    LET upto == IF InsideInput THEN entry_index ELSE entry_index - 1
        idx == SelectSeqIdx(Len(resolved_inputs),
                   {n \in 1..Len(resolved_inputs) :
                        n <= upto /\ "path" \in DOMAIN resolved_inputs[n]})
    IN  [k \in 1..Len(idx) |-> resolved_inputs[idx[k]].path]

\* C21: at most one working path is held at any time; inside an input's preset
\* loop exactly that input's working path is held, acquired once; between
\* inputs, after the loop, after the run returned and after it raised no
\* working path is held.
C21_OneWorkingPathHeld ==
    /\ Cardinality(held_paths) <= 1
    /\ InsideInput =>
          held_paths = {materialize_target_path(resolved_inputs[entry_index].path)}
    /\ ~InsideInput => held_paths = {}
    /\ pc # "done" => materialized = AcquiredSoFar
    /\ \A a, b \in 1..Len(materialized) : materialized[a] = materialized[b] => a = b

\* the run raised in the middle of the second input's presets, after the first
\* input's working path had been released and the second one acquired
C21_Witness ==
    /\ result.status = "error"
    /\ result.error.kind \in {"diagnostic", "preset_failed", "rdump_failed"}
    /\ Len(materialized) = 2
    /\ \E k \in 1..Len(calls) : calls[k].entry = 1 /\ calls[k].exit_code = 0
    /\ calls[Len(calls)].entry = 2
    /\ calls[Len(calls)].preset > 1
    /\ held_paths = {}

\* position of a stage inside one (input, preset) pair
StageRank(stage) ==
    CASE stage = "primary" -> 1
      [] stage = "transform" -> 2
      [] stage = "export" -> 3

SamePair(a, b) == calls[a].entry = calls[b].entry /\ calls[a].preset = calls[b].preset

\* call a belongs to an earlier pair than call b, or to an earlier stage of
\* the same pair
CallBefore(a, b) ==
    \/ calls[a].entry < calls[b].entry
    \/ calls[a].entry = calls[b].entry /\ calls[a].preset < calls[b].preset
    \/ SamePair(a, b) /\ StageRank(calls[a].stage) < StageRank(calls[b].stage)

HasTransform(k) == RdumpArgs(CallPreset(k)) # None

ExportUsed(k) ==
    writer.enabled /\ writer.uri # "None" /\ CommandName(CallPreset(k)) = "target-query"

\* C22: the invocations of one run form one sequence in which every
\* invocation has returned before the next one starts (only the last one may
\* have returned a failure), and the stages of each (input, preset) pair come
\* in the order primary, transform (when the preset has one), export (when
\* used), all before the primary invocation of the next pair; after a primary
\* invocation of a preset with a transform nothing but that transform starts
\* (the run ends there when rdump is not installed).
C22_InvocationsInSequence ==
    /\ \A k \in 1..(Len(calls) - 1) :
          /\ calls[k].exit_code = 0
          /\ CallBefore(k, k + 1)
    /\ \A k \in 1..Len(calls) :
          /\ calls[k].stage = "transform" =>
                /\ HasTransform(k)
                /\ k > 1 /\ calls[k - 1].stage = "primary" /\ SamePair(k - 1, k)
          /\ calls[k].stage = "export" =>
                /\ ExportUsed(k)
                /\ k > 1 /\ SamePair(k - 1, k)
                /\ calls[k - 1].stage = IF HasTransform(k) THEN "transform" ELSE "primary"
          /\ (calls[k].stage = "primary" /\ HasTransform(k) /\ k < Len(calls)) =>
                calls[k + 1].stage = "transform"
          /\ (calls[k].stage = "primary" /\ HasTransform(k) /\ k = Len(calls)
                 /\ calls[k].exit_code = 0) =>
                \/ pc = "transform"
                \/ pc = "done" /\ result.error.kind = "script_not_found"
          /\ (calls[k].stage # "export" /\ ExportUsed(k) /\ k < Len(calls)) =>
                SamePair(k, k + 1)

\* primary, transform and export of one pair, then the primary invocation of a
\* preset without a transform, then the primary invocation for the next input
C22_Witness ==
    \E k \in 1..Len(calls) :
       /\ k + 4 <= Len(calls)
       /\ calls[k].stage = "primary" /\ calls[k + 1].stage = "transform"
       /\ calls[k + 2].stage = "export"
       /\ calls[k + 3].stage = "primary" /\ ~HasTransform(k + 3)
       /\ calls[k + 4].stage = "primary" /\ calls[k + 4].entry > calls[k].entry
(***************************************************************************)
(* Properties of the transform stage and of the run report                 *)
(***************************************************************************)
\* a preset opts out of the transform by declaring rdump_args None
OptsOut(preset) == "rdump_args" \in DOMAIN preset /\ preset.rdump_args = None

\* the output of the primary invocation calls[k], as the caller received it
PrimaryOutput(k) ==
    Records(calls[k].entry, CallPreset(k).name,
            IF calls[k].decode_stdout THEN "str" ELSE "bytes")

TransformCallsOf(entry, preset) ==
    {k \in 1..Len(calls) : /\ calls[k].stage = "transform"
                           /\ calls[k].entry = entry /\ calls[k].preset = preset}

StoredPreset(a) == PresetOf(available_presets[storage[a].preset], yara.arguments)

\* C26: for every executed preset that does not opt out, the transform
\* invocation receives exactly the output of the pair's primary invocation
\* and the preset's own rdump_args when it declares them, otherwise
\* RDUMP_ARGS; a preset that opts out gets no transform invocation and its
\* primary output is persisted as text.
C26_TransformInputAndArguments ==
    /\ \A k \in 1..Len(calls) :
          calls[k].stage = "transform" =>
              /\ ~OptsOut(CallPreset(k))
              /\ calls[k].script = "rdump"
              /\ calls[k - 1].stage = "primary" /\ SamePair(k - 1, k)
              /\ calls[k].stdin_data = PrimaryOutput(k - 1)
              /\ calls[k].args = IF "rdump_args" \in DOMAIN CallPreset(k)
                                 THEN CallPreset(k).rdump_args
                                 ELSE RDUMP_ARGS
    /\ \A a \in 1..Len(storage) :
          IF OptsOut(StoredPreset(a))
          THEN /\ TransformCallsOf(storage[a].entry, storage[a].preset) = {}
               /\ storage[a].content.kind = "records"
               /\ storage[a].content.type = "str"
               /\ storage[a].content.input = storage[a].entry
               /\ storage[a].content.preset = StoredPreset(a).name
               /\ storage[a].extension = "txt"
          ELSE /\ Cardinality(TransformCallsOf(storage[a].entry, storage[a].preset)) = 1
               /\ storage[a].content.kind = "csv"
               /\ storage[a].extension = "csv"

\* a run that transformed one preset with its own arguments and one with the
\* default arguments
C26_Witness ==
    /\ result.status = "report"
    /\ \E j, k \in 1..Len(calls) :
          /\ calls[j].stage = "transform" /\ calls[k].stage = "transform"
          /\ calls[j].args = RDUMP_ARGS
          /\ calls[k].args # RDUMP_ARGS
          /\ "rdump_args" \in DOMAIN CallPreset(k)

\* names of the presets whose primary invocation ran for one input, in the
\* order of the invocations
RunOrderFor(entry) ==
    LET idx == SelectSeqIdx(Len(calls),
                   {k \in 1..Len(calls) :
                        calls[k].stage = "primary" /\ calls[k].entry = entry})
    IN  [n \in 1..Len(idx) |-> CallPreset(idx[n]).name]

\* C27: the executed-preset list of a returned report holds exactly the names
\* of the presets that were invoked, each once, in the order in which they
\* ran for each input, the dynamic preset last when it ran, and no name of a
\* skipped preset.
C27_ExecutedPresetsReported ==
    result.status = "report" =>
        LET presets == result.report.presets
        IN  /\ {presets[n] : n \in 1..Len(presets)}
                   = {CallPreset(k).name : k \in PrimaryCalls}
            /\ \A a, b \in 1..Len(presets) : presets[a] = presets[b] => a = b
            /\ \A entry \in EntriesWithPath : RunOrderFor(entry) = presets
            /\ (\E k \in PrimaryCalls : IsDynamicCall(k)) =>
                  presets[Len(presets)] = YaraPresetName
            /\ \A s \in 1..Len(result.report.skipped_presets) :
                  \A n \in 1..Len(presets) :
                      presets[n] # result.report.skipped_presets[s].preset

\* a report over two inputs with a skipped preset, an executed catalog preset
\* and the dynamic preset
C27_Witness ==
    /\ result.status = "report"
    /\ Cardinality(EntriesWithPath) = 2
    /\ Len(result.report.skipped_presets) >= 1
    /\ Len(result.report.presets) >= 2
    /\ result.report.presets[Len(result.report.presets)] = YaraPresetName

\* C28: a run leaves the module-level catalog as it was: the same presets in
\* the same order with the same fields, in every state of the run and after
\* it returned or raised, with or without a dynamic preset; the synthetic
\* preset is never an element of the catalog.
C28_CatalogUnchanged ==
    /\ catalog = TARGET_QUERY_BUNDLE
    /\ \A n \in 1..Len(catalog) : catalog[n].name # YaraPresetName
    /\ \A n \in 1..Len(available_presets) :
          available_presets[n].id # 0 => available_presets[n].id \in 1..Len(catalog)

\* a run over the whole catalog that also ran the dynamic preset and returned
C28_Witness ==
    /\ result.status = "report"
    /\ Len(selected_presets) = Len(TARGET_QUERY_BUNDLE)
    /\ \E k \in PrimaryCalls : IsDynamicCall(k)
    /\ Len(catalog) = 35
(***************************************************************************)
(* Properties of the availability cache                                    *)
(***************************************************************************)
\* C25: find_functions is asked at most once per descriptor, every later
\* answer for a descriptor equals the first one, across presets and
\* successive runs, whatever the toolkit reports by then; an argument list
\* without a '-f' token followed by a value has no descriptor, is answered
\* available and causes no query.
C25_AvailabilityMemoized ==
    /\ \A a, b \in 1..Len(find_queries) : find_queries[a] = find_queries[b] => a = b
    /\ \A a, b \in 1..Len(answers) :
          answers[a].name = answers[b].name => answers[a].available = answers[b].available
    /\ \A a \in 1..Len(answers) :
          IF answers[a].name = "None"
          THEN answers[a].available
          ELSE \E q \in 1..Len(find_queries) : find_queries[q] = answers[a].name
    /\ \A q \in 1..Len(find_queries) : find_queries[q] # "None"
    /\ _extract_plugin_from_arguments(<<"--json">>) = "None"
    /\ _extract_plugin_from_arguments(<<"--json", "-f">>) = "None"
    /\ _extract_plugin_from_arguments(<<"-q", "-f", "users", "--json">>) = "users"

\* a descriptor was answered twice, and the later answer is the cached one
\* although the toolkit reported the opposite at that moment
C25_Witness ==
    \E a, b \in 1..Len(answers) :
        /\ a < b
        /\ answers[a].name = answers[b].name
        /\ answers[b].name # "None"
        /\ answers[b].available # answers[b].installed
        /\ \E c \in 1..Len(answers) : answers[c].name = "None"
(***************************************************************************)
(* Properties of the exit code and of script resolution                    *)
(***************************************************************************)
\* C23: invoke_console_script returns exit code n when the operation returned
\* the integer n or ended with SystemExit carrying the integer n, 0 when the
\* operation gave no explicit result (None), and 1 for every other non-empty
\* result.
C23_ExitCodeNormalised ==
    \A t \in callers :
        hpc[t] = "returned" =>
            /\ op[t].how \in {"return", "SystemExit"}
            /\ op[t].value.kind = "int" => ret[t].exit_code = op[t].value.n
            /\ op[t].value = NoneValue => ret[t].exit_code = 0
            /\ (op[t].value.kind \in {"str", "object"} /\ op[t].value # StrValue("")) =>
                  ret[t].exit_code = 1

\* the operation ended with SystemExit(2) and the harness returned 2
C23_Witness ==
    \E t \in callers :
        /\ hpc[t] = "returned"
        /\ op[t].how = "SystemExit"
        /\ op[t].value = IntValue(2)
        /\ ret[t].exit_code = 2

\* the harness, step by step (SpecHarness): a call with an unregistered name
\* ends raised at line 104, no operation was called and the process-wide state
\* is the one the caller saw
UnresolvedCallRaises ==
    \A t \in callers :
        (call[t].script \notin RegisteredScripts /\ hpc[t] \notin {"idle", "resolve"}) =>
            /\ hpc[t] = "raised"
            /\ op[t].how = "unset"
            /\ Snapshot = before[t]

\* the run ended with the error of _resolve_console_script
UnresolvedRaised == result.status = "error" /\ result.error.kind = "script_not_found"

\* C24: an invocation whose operation name has no registered entry point
\* raises without calling any operation and with sys.argv, sys.stdin,
\* sys.stdout and sys.stderr unchanged; inside _run_bundle that error, naming
\* the script, ends the run as a failure: no later invocation, no report.
C24_UnresolvedScriptEndsRun ==
    /\ [](/\ \A k \in 1..Len(calls) : calls[k].script \in console_scripts
          /\ UnresolvedRaised =>
                /\ pc = "done"
                /\ result.error.script \notin console_scripts
                /\ result.report = NoReport)
    /\ [][(result.status = "running" /\ result'.status = "error"
              /\ result'.error.kind = "script_not_found") =>
             /\ UNCHANGED <<sysVars, calls, storage, output_files>>
             /\ result'.error.script = NeededScript]_vars
    /\ [][UnresolvedRaised => UNCHANGED <<calls, result, sysVars>>]_vars

\* the transform script is missing: the primary invocation of the first pair
\* completed, then the run ended with the resolution error
C24_Witness ==
    /\ UnresolvedRaised
    /\ result.error.script = "rdump"
    /\ Len(calls) = 1
    /\ calls[1].stage = "primary" /\ calls[1].exit_code = 0
    /\ sys_stdin = SYS_STDIN0
(***************************************************************************)
(* Properties of the generic query runner and of run_target_info           *)
(***************************************************************************)
\* the last invocation of the run exited non-zero
QueryFailed == calls # <<>> /\ calls[Len(calls)].exit_code # 0

QDisplayName(entry) ==
    GetOr(resolved_inputs[entry], "display_name", PathName(resolved_inputs[entry].path))

\* C29: when the tool exits non-zero for an input, _run_query raises with the
\* tool's trimmed diagnostic text, or, when that is empty, with a message
\* naming the tool, the input and the exit code; nothing is written to that
\* input's output file and no later input is invoked.
C29_QueryFailureEndsRun ==
    /\ \A k \in 1..(Len(calls) - 1) : calls[k].exit_code = 0
    /\ QueryFailed =>
          LET failed == calls[Len(calls)]
          IN  /\ pc = "done"
              /\ result.status = "error"
              /\ IF Strip(failed.stderr) # NoText
                 THEN /\ result.error.kind = "diagnostic"
                      /\ result.error.text = Strip(failed.stderr)
                 ELSE /\ result.error.kind = "query_failed"
                      /\ result.error.query = failed.script
                      /\ result.error.input = QDisplayName(failed.entry)
                      /\ result.error.exit_code = failed.exit_code
              /\ \A a \in 1..Len(storage) : storage[a].entry # failed.entry
              /\ \A a \in 1..Len(output_files) : output_files[a].entry # failed.entry
              /\ \A k \in 1..Len(calls) : calls[k].entry <= failed.entry

\* two inputs with a path: the tool wrote the first one's output, failed for
\* the second one with exit code 2 and whitespace-only diagnostics
C29_Witness ==
    /\ QueryFailed
    /\ Len(calls) = 2
    /\ calls[2].exit_code = 2
    /\ calls[2].stderr # NoText
    /\ result.error.kind = "query_failed"
    /\ Len(storage) = 1

GivenConfig == caller.task_config.value

\* C30: run_target_info hands _run_query a configuration whose query is
\* 'target-info' and whose arguments is '' where the caller gave none, with
\* the caller's own value for either key where one was given and every other
\* key as given, passes every other argument through unchanged, and leaves
\* the caller's task_config as it was.
C30_TargetInfoDefaults ==
    /\ []((caller.task = "run_target_info" /\ pc # "task") =>
            LET effective == received.task_config.value
            IN  /\ received.task_config.kind = "dict"
                /\ DOMAIN effective = DOMAIN GivenConfig \cup {"query", "arguments"}
                /\ \A key \in DOMAIN GivenConfig : effective[key] = GivenConfig[key]
                /\ "query" \notin DOMAIN GivenConfig => effective.query = DEFAULT_QUERY
                /\ "arguments" \notin DOMAIN GivenConfig => effective.arguments = NoText
                /\ \A field \in {"task", "pipe_result", "input_files", "output_path",
                                 "workflow_id"} : received[field] = caller[field])
    /\ [][caller' = caller]_vars

\* the caller gave its own query and a further key but no arguments, and the
\* run returned its result
C30_Witness ==
    /\ caller.task = "run_target_info"
    /\ "query" \in DOMAIN GivenConfig /\ GivenConfig.query = TextTargetFs
    /\ "case_name" \in DOMAIN GivenConfig
    /\ "arguments" \notin DOMAIN GivenConfig
    /\ result.status = "report"
    /\ received.task_config.value.arguments = NoText

(***************************************************************************)
(* Artifacts, metadata entries and export of a _run_bundle run             *)
(***************************************************************************)
\* the positions of resolved_inputs that have a path, in list order
PathEntries == SelectSeqIdx(Len(resolved_inputs), EntriesWithPath)

\* the k-th (input, preset) pair of the loops of lines 658 and 668
PairEntry(k) == PathEntries[((k - 1) \div Len(available_presets)) + 1]

PairPreset(k) == ((k - 1) % Len(available_presets)) + 1

\* C31: whenever the run is between two (input, preset) pairs or has ended,
\* output_files and meta_entries have the same length; a returned report
\* carries (inputs with a path) times (available presets, the dynamic one
\* included) artifacts and as many entries; the k-th artifact and the k-th
\* entry belong to the k-th pair in input-major order, and the artifact is
\* named by the stem of the input's display name and the preset's
\* output_suffix.
C31_ArtifactsMatchEntries ==
    Started =>
        /\ Len(output_files) = Len(meta_entries)
        /\ result.status = "report" =>
              /\ Len(output_files) = Cardinality(EntriesWithPath) * Len(available_presets)
              /\ result.report.output_files = output_files
              /\ result.report.results = meta_entries
        /\ \A k \in 1..Len(output_files) :
              LET entry == resolved_inputs[PairEntry(k)]
                  preset == PresetOf(available_presets[PairPreset(k)], yara.arguments)
              IN  /\ output_files[k].entry = PairEntry(k)
                  /\ output_files[k].preset = PairPreset(k)
                  /\ output_files[k].display_name =
                         [base |-> PathStem(DisplayNameOf(entry)),
                          suffix |-> preset.output_suffix]
                  /\ k \in 1..Len(meta_entries) =>
                         /\ meta_entries[k].input = DisplayNameOf(entry)
                         /\ meta_entries[k].preset = preset.name

\* a report for two inputs with a path and at least two available presets,
\* one input with a display name that has an extension
C31_Witness ==
    /\ result.status = "report"
    /\ Cardinality(EntriesWithPath) = 2
    /\ Len(available_presets) >= 2
    /\ Len(result.report.output_files) = 2 * Len(available_presets)
    /\ \E k \in 1..Len(output_files) :
          output_files[k].display_name.base # DisplayNameOf(resolved_inputs[PairEntry(k)])

ExportCallsOf(entry, preset) ==
    {k \in 1..Len(calls) : /\ calls[k].stage = "export"
                           /\ calls[k].entry = entry /\ calls[k].preset = preset}

\* calls[j] returned exit code 0 for the pair of calls[k], before calls[k]
SucceededBefore(stage, k) ==
    \E j \in 1..(k - 1) :
        calls[j].stage = stage /\ SamePair(j, k) /\ calls[j].exit_code = 0

\* C32: an export is invoked only for a pair for which export is used, once,
\* after the pair's transform invocation returned exit code 0 and its
\* artifact was written, with the destination arguments and with exactly the
\* bytes the pair's primary invocation returned (not the transform's
\* output); a completed pair for which export is used has exactly one export
\* invocation, and a metadata entry has record_writer, equal to the
\* destination, if and only if the export was invoked for its pair.
C32_ExportOncePerPair ==
    /\ \A k \in 1..Len(calls) :
          calls[k].stage = "export" =>
              /\ ExportUsed(k)
              /\ ExportCallsOf(calls[k].entry, calls[k].preset) = {k}
              /\ SucceededBefore("transform", k)
              /\ \E j \in 1..(k - 1) :
                    /\ calls[j].stage = "primary" /\ SamePair(j, k)
                    /\ calls[j].exit_code = 0
                    /\ calls[k].stdin_data = Encoded(PrimaryOutput(j))
                    /\ calls[k].stdin_data # Encoded(Csv(PrimaryOutput(j)))
              /\ calls[k].args = ExportArgs(writer.uri)
              /\ \E a \in 1..Len(storage) :
                    storage[a].entry = calls[k].entry /\ storage[a].preset = calls[k].preset
    /\ Started =>
          \A k \in 1..Len(meta_entries) :
              LET exports == ExportCallsOf(output_files[k].entry, output_files[k].preset)
                  used == /\ writer.enabled /\ writer.uri # "None"
                          /\ CommandName(CompletedPreset(k)) = "target-query"
              IN  /\ used => Cardinality(exports) = 1
                  /\ "record_writer" \in DOMAIN meta_entries[k] <=> exports # {}
                  /\ "record_writer" \in DOMAIN meta_entries[k] =>
                         meta_entries[k].record_writer = writer.uri

\* a report of a run over two inputs in which one preset of each input was
\* exported and another was not
C32_Witness ==
    /\ result.status = "report"
    /\ Cardinality(EntriesWithPath) = 2
    /\ \E a, b \in 1..Len(result.report.results) :
          /\ output_files[a].entry = output_files[b].entry
          /\ "record_writer" \in DOMAIN result.report.results[a]
          /\ "record_writer" \notin DOMAIN result.report.results[b]
    /\ Cardinality({k \in 1..Len(calls) : calls[k].stage = "export"}) = 2

\* the run ended with an error raised inside the loop of line 668
AbortedAtPair ==
    /\ result.status = "error"
    /\ result.error.kind \in {"diagnostic", "preset_failed", "rdump_failed",
                              "export_failed", "script_not_found"}

\* the (input, preset) pairs the loops completed before the one that failed
CompletedBefore ==
    Cardinality({e \in EntriesWithPath : e < entry_index}) * Len(available_presets)
        + (preset_index - 1)

\* C33: when the run aborts at an (input, preset) pair, the artifacts in
\* storage are those of the pairs completed before it, as many as those
\* pairs, none is reported to the caller, and storage is empty only when the
\* first pair is the one that fails.
C33_AbortKeepsCompletedArtifacts ==
    AbortedAtPair =>
        /\ Len(storage) = CompletedBefore
        /\ storage = output_files
        /\ result.report = NoReport
        /\ storage = <<>> => CompletedBefore = 0

(***************************************************************************)
(* Runs without an available preset and inputs without a path              *)
(***************************************************************************)
\* the run passed the argument, selection and export-destination checks of
\* lines 547-607 and built its preset list (lines 609-656)
ReachedLoop ==
    /\ Started
    /\ pc \notin {"writer", "yara"}
    /\ result.error.kind \notin {"no_presets_match", "no_presets_available",
                                 "no_writer_uri"}

\* rules were supplied, the yara plugin is unavailable and no catalog preset
\* is available
NothingToRun ==
    /\ ReachedLoop
    /\ yara.arguments # <<>>
    /\ ~yara.plugin_available
    /\ available_presets = <<>>

\* the source paths of the entries that have one, in list order
PathsOfInputs == [n \in 1..Len(PathEntries) |-> resolved_inputs[PathEntries[n]].path]

\* C34: with rules supplied, the yara plugin unavailable and no catalog preset
\* available, a run that passed the checks of lines 547-607 makes no harness
\* invocation and returns no report; it ends with the empty-result error,
\* raised at finalization only, when every input path has been materialized
\* and released, and the skip record of the dynamic preset, although
\* recorded, does not reach the caller.
C34_NothingToRunFailsAtFinalization ==
    /\ [](NothingToRun =>
            /\ calls = <<>>
            /\ storage = <<>>
            /\ result.status # "report"
            /\ DynamicSkipRecord \in SeqRange(skipped_meta)
            /\ result.status = "error" =>
                  /\ pc = "done"
                  /\ result.error.kind = "no_outputs"
                  /\ materialized = PathsOfInputs
                  /\ held_paths = {}
                  /\ result.report = NoReport)
    /\ [][(NothingToRun /\ result'.status = "error" /\ result.status # "error")
              => pc = "finalize"]_vars

\* the run over two inputs with a path ended that way, with catalog presets
\* selected and all of them unavailable
C34_Witness ==
    /\ NothingToRun
    /\ pc = "done"
    /\ result.error.kind = "no_outputs"
    /\ Len(materialized) = 2
    /\ selected_presets # <<>>

\* positions of resolved_inputs whose entry has no path
EntriesWithoutPath == (1..Len(resolved_inputs)) \ EntriesWithPath

\* the loop of line 658 is at an entry without a path
AtEntryWithoutPath ==
    /\ pc = "next_input"
    /\ entry_index \in EntriesWithoutPath

\* C38: an entry without a path is passed over: nothing is materialized or
\* invoked for it and the run goes on with the next entry in an unchanged
\* state; no artifact belongs to such an entry, a returned report holds the
\* artifacts of every entry with a path, in input order, and the run ends with
\* the empty-result error only when no artifact was produced for any input
\* (no entry has a path, or no preset is available).
C38_EntryWithoutPathSkipped ==
    /\ [](Started =>
            /\ \A k \in 1..Len(calls) : calls[k].entry \in EntriesWithPath
            /\ \A k \in 1..Len(storage) : storage[k].entry \in EntriesWithPath
            /\ \A k \in 1..Len(materialized) :
                  /\ k <= Len(PathsOfInputs)
                  /\ materialized[k] = PathsOfInputs[k]
            /\ result.status = "report" =>
                  /\ {output_files[k].entry : k \in 1..Len(output_files)} = EntriesWithPath
                  /\ \A a, b \in 1..Len(output_files) :
                        a < b => output_files[a].entry <= output_files[b].entry
            /\ (result.status = "error" /\ result.error.kind = "no_outputs") =>
                  /\ output_files = <<>>
                  /\ storage = <<>>
                  /\ EntriesWithPath = {} \/ available_presets = <<>>)
    /\ [][AtEntryWithoutPath =>
              /\ pc' = "next_input"
              /\ entry_index' = entry_index + 1
              /\ UNCHANGED <<result, calls, materialized, held_paths, storage,
                             output_files, meta_entries>>]_vars

\* a report of a run whose first entry has no path and whose second has one
C38_Witness ==
    /\ result.status = "report"
    /\ Len(resolved_inputs) = 2
    /\ EntriesWithoutPath = {1}
    /\ Len(materialized) = 1
    /\ output_files # <<>>

(***************************************************************************)
(* Properties of the selection over any catalog                            *)
(***************************************************************************)
\* the preset declares no category: an empty categories list, or neither key
DeclaresNothing(preset) ==
    IF "categories" \in DOMAIN preset THEN preset.categories = <<>>
    ELSE "category" \notin DOMAIN preset

Uncategorised == {i \in 1..Len(catalog) : DeclaresNothing(catalog[i])}

\* C35: for every catalog, the selection [everything] (and the category
\* everything resolved alone) selects every preset of the catalog, in catalog
\* order, presets that declare no category included; a selection that does
\* not contain everything never selects a preset that declares no category.
C35_EverythingSelectsWholeCatalog ==
    phase \in {"resolved", "selected"} =>
        /\ CATEGORY_EVERYTHING \in SeqRange(scopes) =>
              /\ selected_presets = [i \in 1..Len(catalog) |-> i]
              /\ Uncategorised \subseteq SeqRange(selected_presets)
        /\ CATEGORY_EVERYTHING \notin SeqRange(scopes) =>
              Uncategorised \cap SeqRange(selected_presets) = {}
        /\ catalog = TARGET_QUERY_BUNDLE /\ phase = "selected" =>
              selected_presets = SelectPresets(scopes)

\* a selection without everything picked a preset of a catalog and left the
\* preset without categories out
C35_Witness ==
    /\ phase = "selected"
    /\ CATEGORY_EVERYTHING \notin SeqRange(scopes)
    /\ Uncategorised # {}
    /\ selected_presets # <<>>
    /\ Uncategorised \cap SeqRange(selected_presets) = {}

\* [everything] selected a catalog that holds a preset without categories
C35_EverythingReached ==
    /\ phase = "selected"
    /\ scopes = <<CATEGORY_EVERYTHING>>
    /\ Uncategorised # {}
    /\ Len(selected_presets) = MaxCatalog

(***************************************************************************)
(* Properties of _normalise_scopes: first-seen order and idempotence       *)
(***************************************************************************)
\* the non-blank pieces of the items of a scope input, in the order given
RECURSIVE PiecesInOrder(_)
PiecesInOrder(items) ==
    IF items = <<>> THEN <<>>
    ELSE LET item == Head(items)
             pieces == IF item = None THEN <<>>
                       ELSE IF Contains(item, ",") THEN Split(item, ",")
                       ELSE <<item>>
         IN  SelectSeq(pieces, LAMBDA piece : Strip(piece) # <<>>)
                 \o PiecesInOrder(Tail(items))

\* the category each piece resolves to
ResolvedInOrder(raw) ==
    LET pieces == PiecesInOrder(raw.value)
    IN  [n \in 1..Len(pieces) |-> _normalise_scope(pieces[n])]

\* C36: when the input has items and none of them resolves to everything,
\* _normalise_scopes returns the categories its items resolve to, each
\* exactly once, ordered by their first occurrence in the input.
C36_FirstSeenOrder ==
    (phase = "scopes" /\ raw_scopes.kind # "none"
        /\ CATEGORY_EVERYTHING \notin SeqRange(ResolvedInOrder(raw_scopes))) =>
        LET resolved == ResolvedInOrder(raw_scopes)
        IN  /\ NoDuplicates(scopes)
            /\ SeqRange(scopes) = SeqRange(resolved)
            /\ \A i, j \in 1..Len(scopes) :
                  i < j => IndexOf(resolved, scopes[i], 1) < IndexOf(resolved, scopes[j], 1)

\* two aliases of one category around another category
C36_Witness ==
    /\ phase = "scopes"
    /\ raw_scopes = StrOf(<<"u","s","b">> \o <<",">> \o Label_MFT_TIMELINE \o <<","," ">>
                              \o <<"e","x","t","e","r","n","a","l">>)
    /\ scopes = <<CATEGORY_EXTERNAL_DEVICE, CATEGORY_MFT_TIMELINE>>

\* an identifier and its label in one list
C36_IdentifierAndLabel ==
    /\ phase = "scopes"
    /\ raw_scopes = ListOf(<<CATEGORY_BROWSER_ACTIVITY, Label_BROWSER_ACTIVITY>>)
    /\ scopes = <<CATEGORY_BROWSER_ACTIVITY>>

\* C37: for every scope input, normalising the list that _normalise_scopes
\* returned gives that list again, so the selection a run reports, given back
\* as bundle_scopes, is resolved to the same selection.
C37_NormalisationIdempotent ==
    phase = "scopes" =>
        /\ _normalise_scopes(ListOf(scopes), default_to_everything) = scopes
        /\ ConfiguredScopes([bundle_scopes |-> ListOf(scopes)]) = scopes

(***************************************************************************)
(* Termination of _run_bundle                                              *)
(***************************************************************************)
\* C39: when every invocation and every collaborator call returns, the run
\* ends, either with a returned report or with a raised error and never with
\* both; it makes at most (inputs) times (available presets) primary
\* invocations, and the invocations advance strictly through the pairs and,
\* within a pair, through primary, transform and export: no pair has two
\* invocations of one stage, and a transform or an export directly follows
\* an earlier stage of its own pair.
C39_RunTerminates ==
    /\ <>(pc = "done")
    /\ [](pc = "done" =>
            \/ result.status = "report" /\ result.error = NoError
            \/ result.status = "error" /\ result.report = NoReport)
    /\ [](pc # "done" => result.status = "running")
    /\ [](/\ Cardinality(PrimaryCalls) <= Len(resolved_inputs) * Len(available_presets)
          /\ \A k \in 1..Len(calls) :
                /\ calls[k].entry \in 1..Len(resolved_inputs)
                /\ calls[k].preset \in 1..Len(available_presets)
                /\ k > 1 => CallBefore(k - 1, k)
                /\ calls[k].stage # "primary" => k > 1 /\ SamePair(k - 1, k))

\* a run that ended with a report after the greatest number of invocations:
\* one primary invocation per pair, with transforms and an export
C39_Witness ==
    /\ pc = "done"
    /\ result.status = "report"
    /\ Len(resolved_inputs) = 2
    /\ Len(available_presets) >= 2
    /\ Cardinality(PrimaryCalls) = Len(resolved_inputs) * Len(available_presets)
    /\ \E k \in 1..Len(calls) : calls[k].stage = "export"
====
